---- MODULE Spec2Model ----
(***************************************************************************)
(* Verification model of pnsn/PULSE:                                       *)
(*   - the staged pulse loop           (ayahos/wyrms/wyrm.py, Wyrm)        *)
(*   - the keyed trace buffer          (PULSE/data/dictstream.py)          *)
(*   - the component-keyed Window      (PULSE/data/window.py)              *)
(* Each part has its own specification (SpecPulse, SpecBuf, SpecWin); the  *)
(* variables of the other parts stay at their initial value.               *)
(***************************************************************************)
EXTENDS Integers, Sequences, FiniteSets, TLC

(***************************************************************************)
(* Bounds of the model (not program constants).                            *)
(***************************************************************************)
MaxPulseSize == 3
MaxInput == 4
MaxOutput == 4

(***************************************************************************)
(* General helpers.                                                        *)
(***************************************************************************)
Min2(a, b) == IF a <= b THEN a ELSE b

Range(s) == {s[i] : i \in 1..Len(s)}

VARIABLES
    \* ---- Wyrm (wyrm.py) ----
    max_pulse_size,   \* Wyrm.max_pulse_size
    output,           \* Wyrm.output (deque)
    stage,            \* the polymorphic hooks of this stage (overrides)
    input,            \* the deque handed to pulse(), owned by the caller
    inputKind,        \* "deque" or "None": type of the argument of pulse()
    pc,               \* position of pulse(): "idle", "loop", "returned", "raised"
    input_measure,    \* local input_measure of pulse()
    iterno,           \* local iterno of pulse()
    nproc,            \* local nproc of pulse()
    in0,              \* content of input when pulse() was called
    out0,             \* content of output when pulse() was called
    nremoved,         \* number of popleft() calls made by this pulse()
    stop,             \* why the loop of this pulse() ended
    \* ---- DictStream (dictstream.py) ----
    ds,               \* the DictStream: traces (ordered dict), stats, default_key_attr
    ret,              \* the DictStream returned by the last call (fnpop), or NoBuffer
    bop,              \* the last DictStream method called and its arguments
    berr,             \* how the last call ended: "ok" or the exception raised
    \* ---- Window (window.py) ----
    win,              \* the Window: traces keyed by component, primary and
                      \* secondary components
    wret,             \* the list of traces returned by the last Window call
    wop,              \* the last Window method called and its arguments
    werr,             \* how the last Window call ended
    \* ---- TubeWyrm and CanWyrm (coordinate.py) ----
    tube,             \* the TubeWyrm or CanWyrm: its class, the Wyrms of its
                      \* wyrm_dict in order, the attributes assigned to it
                      \* after __init__
    tx,               \* the deque x of the caller after the last pulse(x)
    ty,               \* the value the last pulse(x) returned
    top,              \* the last call: the x given and the pulse of each
                      \* Wyrm it made, in order
    terr,             \* how the last call ended
    \* ---- driver (PULSED/module/coordinate.py, wyrm/core/coordinate.py) ----
    driver,           \* the driver object: its class and its module attribute
    runs,             \* self.runs, the stop flag
    rpc,              \* position of the worker thread inside run()
    spc,              \* position of the thread that calls stop()
    dlog,             \* calls received by the pipeline and the module, in order
    derr              \* how run() ended

pulseVars == <<max_pulse_size, output, stage, input, inputKind, pc,
               input_measure, iterno, nproc, in0, out0, nremoved, stop>>

bufVars == <<ds, ret, bop, berr>>

winVars == <<win, wret, wop, werr>>

tubeVars == <<tube, tx, ty, top, terr>>

drvVars == <<driver, runs, rpc, spc, dlog, derr>>

vars == <<pulseVars, bufVars, winVars, tubeVars, drvVars>>


(***************************************************************************)
(* Character strings are sequences of one-character strings, so that keys  *)
(* can be built, compared and matched character by character.              *)
(***************************************************************************)
Dot == <<".">>

RECURSIVE Join(_, _)
\* sep.join(parts)
Join(parts, sep) ==
    IF Len(parts) = 0 THEN <<>>
    ELSE IF Len(parts) = 1 THEN parts[1]
    ELSE parts[1] \o sep \o Join(Tail(parts), sep)

(***************************************************************************)
(* Traces (MLTrace) and their header (MLStats, header.py).  Times are in   *)
(* ticks; TicksPerSecond ticks make one second.                            *)
(***************************************************************************)
TicksPerSecond == 2

None == -1

\* MLStats.delta, in ticks
Delta(tr) == TicksPerSecond \div tr.sampling_rate

\* MLStats.npts
Npts(tr) == Len(tr.data)

\* MLStats.endtime = starttime + (npts - 1) / sampling_rate
Endtime(tr) == tr.starttime + (Npts(tr) - 1) * Delta(tr)

\* MLStats.defaults['model'], MLStats.defaults['weight']
DefaultModel == <<>>
DefaultWeight == <<>>

\* MLStats.get_nslc
get_nslc(tr) == Join(<<tr.network, tr.station, tr.location, tr.channel>>, Dot)

\* MLStats.get_site
get_site(tr) == Join(<<tr.network, tr.station, tr.location>>, Dot)

\* MLStats.get_inst
get_inst(tr) ==
    tr.network \o Dot \o tr.station \o Dot \o tr.location \o Dot \o
    (IF Len(tr.channel) > 0 THEN SubSeq(tr.channel, 1, Len(tr.channel) - 1)
     ELSE <<>>)

\* MLStats.get_comp
get_comp(tr) ==
    IF Len(tr.channel) > 0 THEN <<tr.channel[Len(tr.channel)]>> ELSE <<>>

\* MLStats.get_mod
get_mod(tr) == tr.model \o Dot \o tr.weight

\* MLStats.get_id
get_id(tr) ==
    LET wt == IF tr.weight # DefaultWeight THEN tr.weight ELSE <<>>
        mo == IF tr.model # DefaultModel THEN tr.model ELSE <<>>
    IN  IF wt = <<>> /\ mo = <<>> THEN get_nslc(tr)
        ELSE get_nslc(tr) \o Dot \o mo \o Dot \o wt

\* DictStream._attr_keys
attr_keys == {"id", "site", "inst", "instrument", "mod", "component"}

\* MLTrace.key_opts[key_attr]: the key of a trace under a key scheme.
key_opts(tr, key_attr) ==
    CASE key_attr = "id" -> get_id(tr)
      [] key_attr = "site" -> get_site(tr)
      [] key_attr = "inst" ->
           tr.location \o Dot \o
           (IF Len(tr.channel) > 0
            THEN SubSeq(tr.channel, 1, Len(tr.channel) - 1) ELSE <<>>)
      [] key_attr = "instrument" -> get_inst(tr)
      [] key_attr = "mod" -> get_mod(tr)
      [] key_attr = "component" -> get_comp(tr)
      [] key_attr = "comp" -> get_comp(tr)

\* MLTrace.__add__ precondition: same sampling rate and same identity.
MergeCompatible(self, other) ==
    /\ self.sampling_rate = other.sampling_rate
    /\ get_id(self) = get_id(other)

\* Does trace tr have a sample at time t?
Covers(tr, t) ==
    /\ tr.starttime <= t
    /\ t <= Endtime(tr)

\* Index of the sample of tr at time t
SampleAt(tr, t) == ((t - tr.starttime) \div Delta(tr)) + 1

\* MLTrace.__add__ (in place on self): the merged trace spans both traces,
\* fold is additive, data is taken from the trace that has valid samples.
MLTraceAdd(self, other) ==
    LET st == Min2(self.starttime, other.starttime)
        et == IF Endtime(self) >= Endtime(other) THEN Endtime(self)
              ELSE Endtime(other)
        n == ((et - st) \div Delta(self)) + 1
        T(i) == st + (i - 1) * Delta(self)
        F(tr, i) == IF Covers(tr, T(i)) THEN tr.fold[SampleAt(tr, T(i))] ELSE 0
        D(tr, i) == IF Covers(tr, T(i)) THEN tr.data[SampleAt(tr, T(i))] ELSE 0
    IN  [self EXCEPT
           !.starttime = st,
           !.data = [i \in 1..n |-> IF F(self, i) > 0 THEN D(self, i)
                                    ELSE D(other, i)],
           !.fold = [i \in 1..n |-> F(self, i) + F(other, i)]]

(***************************************************************************)
(* Python dict (insertion ordered) as a sequence of key/value entries.     *)
(***************************************************************************)
DictKeys(d) == [i \in 1..Len(d) |-> d[i].key]

DictHas(d, k) == \E i \in 1..Len(d) : d[i].key = k

DictIndex(d, k) == CHOOSE i \in 1..Len(d) : d[i].key = k

DictGet(d, k) == d[DictIndex(d, k)].tr

\* Mutant: a key that is replaced goes last.
DictUpdate_moves(d, k, v) ==
    Append(SelectSeq(d, LAMBDA e : e.key # k), [key |-> k, tr |-> v])

\* dict.update({k: v}): replace in place, or append a new key
DictUpdate(d, k, v) ==
    IF DictHas(d, k) THEN [d EXCEPT ![DictIndex(d, k)].tr = v]
    ELSE Append(d, [key |-> k, tr |-> v])

\* dict.pop(k) / dict.__delitem__(k): the dict without key k
DictDel(d, k) ==
    LET i == DictIndex(d, k)
    IN  SubSeq(d, 1, i - 1) \o SubSeq(d, i + 1, Len(d))

(***************************************************************************)
(* DictStreamStats and the common id.                                      *)
(***************************************************************************)
\* DictStreamStats.update_time_range
update_time_range(stats, tr) ==
    [stats EXCEPT
       !.min_starttime = IF stats.min_starttime = None
                            \/ stats.min_starttime > tr.starttime
                         THEN tr.starttime ELSE stats.min_starttime,
       !.max_starttime = IF stats.max_starttime = None
                            \/ stats.max_starttime < tr.starttime
                         THEN tr.starttime ELSE stats.max_starttime,
       !.min_endtime = IF stats.min_endtime = None
                          \/ stats.min_endtime > Endtime(tr)
                       THEN Endtime(tr) ELSE stats.min_endtime,
       !.max_endtime = IF stats.max_endtime = None
                          \/ stats.max_endtime < Endtime(tr)
                       THEN Endtime(tr) ELSE stats.max_endtime]

IdFields == <<"network", "station", "location", "channel", "model", "weight">>

\* DictStream.get_unique_id_elements, for one field
UniqueElements(d, field) == {d[i].tr[field] : i \in 1..Len(d)}

\* initial value of minlen in get_common_id_elements
MinLenStart == 999

\* Mutant: no '*' is appended when the values differ in length.
CommonElement_nostar(d, field) ==
    LET V == UniqueElements(d, field)
        minlen == CHOOSE m \in {Len(v) : v \in V} \cup {MinLenStart} :
                    \A v \in V : m <= Len(v)
        cs == [i \in 1..minlen |->
                 IF \E v, w \in V : v[i] # w[i] THEN "?"
                 ELSE (CHOOSE v \in V : TRUE)[i]]
    IN  IF Cardinality(V) = 0 THEN <<"*">>
        ELSE IF Cardinality(V) = 1 THEN CHOOSE v \in V : TRUE
        ELSE IF \A i \in 1..minlen : cs[i] = "?" THEN <<"*">>
        ELSE cs

\* DictStream.get_common_id_elements, for one field
CommonElement(d, field) ==
    LET V == UniqueElements(d, field)
        minlen == CHOOSE m \in {Len(v) : v \in V} \cup {MinLenStart} :
                    \A v \in V : m <= Len(v)
        maxlen == CHOOSE m \in {Len(v) : v \in V} \cup {0} :
                    \A v \in V : m >= Len(v)
        cs == [i \in 1..minlen |->
                 IF \E v, w \in V : v[i] # w[i] THEN "?"
                 ELSE (CHOOSE v \in V : TRUE)[i]]
    IN  IF Cardinality(V) = 0 THEN <<"*">>
        ELSE IF Cardinality(V) = 1 THEN CHOOSE v \in V : TRUE
        ELSE IF \A i \in 1..minlen : cs[i] = "?" THEN <<"*">>
        ELSE IF minlen # maxlen THEN cs \o <<"*">>
        ELSE cs

\* DictStream.get_common_id
get_common_id(d) ==
    Join([f \in 1..6 |-> CommonElement(d, IdFields[f])], Dot)

\* DictStreamStats.defaults
DefaultStats ==
    [common_id |-> <<"*">>, min_starttime |-> None, max_starttime |-> None,
     min_endtime |-> None, max_endtime |-> None]


(***************************************************************************)
(* DictStream operations.  A buffer b is a record                          *)
(*   [traces, stats, default_key_attr];                                    *)
(* an operation yields the buffer after the call and the exception raised  *)
(* ("ok" if none).                                                         *)
(***************************************************************************)
\* Mutant: the trace is stored under its key without looking for the key.
add_trace_replace(b, other, key_attr) ==
    LET ka == IF key_attr = "None" THEN b.default_key_attr ELSE key_attr
        key == key_opts(other, ka)
        tr2 == DictUpdate(b.traces, key, other)
    IN  [b |-> [b EXCEPT !.traces = tr2,
                         !.stats = [update_time_range(b.stats, other)
                                      EXCEPT !.common_id = get_common_id(tr2)]],
         err |-> "ok"]

\* DictStream._add_trace
add_trace(b, other, key_attr) ==
    LET ka == IF key_attr = "None" THEN b.default_key_attr ELSE key_attr
    IN  IF ka \notin attr_keys THEN [b |-> b, err |-> "ValueError"]
        ELSE
          LET key == key_opts(other, ka)
              fresh == ~DictHas(b.traces, key)
          IN  IF ~fresh /\ ~MergeCompatible(DictGet(b.traces, key), other)
              THEN [b |-> b, err |-> "SegmentIncompatible"]
              ELSE
                LET tr2 == IF fresh THEN DictUpdate(b.traces, key, other)
                           ELSE DictUpdate(b.traces, key,
                                  MLTraceAdd(DictGet(b.traces, key), other))
                IN  [b |-> [b EXCEPT
                              !.traces = tr2,
                              !.stats = [update_time_range(b.stats, other)
                                           EXCEPT !.common_id =
                                                    get_common_id(tr2)]],
                     err |-> "ok"]

RECURSIVE add_stream(_, _, _)
\* DictStream._add_stream: _add_trace on each trace, up to the first raise
add_stream(b, stream, key_attr) ==
    IF Len(stream) = 0 THEN [b |-> b, err |-> "ok"]
    ELSE LET r == add_trace(b, Head(stream), key_attr)
         IN  IF r.err # "ok" THEN r
             ELSE add_stream(r.b, Tail(stream), key_attr)

\* DictStream.extend (other: a list of traces; a single Trace is the list
\* of length one)
extend(b, other, key_attr) ==
    IF key_attr # "None" /\ key_attr \notin attr_keys
    THEN [b |-> b, err |-> "ValueError"]
    ELSE add_stream(b, other,
                    IF key_attr = "None" THEN b.default_key_attr ELSE key_attr)

\* DictStream.__init__ with traces=[]
NewDictStream(header, key_attr) ==
    IF key_attr \notin attr_keys
    THEN [b |-> [traces |-> <<>>, stats |-> header,
                 default_key_attr |-> key_attr],
          err |-> "ValueError"]
    ELSE [b |-> [traces |-> <<>>,
                 stats |-> [header EXCEPT !.common_id = get_common_id(<<>>)],
                 default_key_attr |-> key_attr],
          err |-> "ok"]

RECURSIVE FnMatch(_, _)
\* fnmatch.fnmatchcase(name, pat) for patterns made of characters, ? and *
FnMatch(name, pat) ==
    IF Len(pat) = 0 THEN Len(name) = 0
    ELSE IF Head(pat) = "*"
         THEN \/ FnMatch(name, Tail(pat))
              \/ (Len(name) > 0 /\ FnMatch(Tail(name), pat))
    ELSE /\ Len(name) > 0
         /\ (Head(pat) = "?" \/ Head(pat) = Head(name))
         /\ FnMatch(Tail(name), Tail(pat))

\* fnmatch.filter(keys, fnstr): the matching keys, in the order of keys
FnFilter(keys, fnstr) == SelectSeq(keys, LAMBDA k : FnMatch(k, fnstr))

RECURSIVE PopInto(_, _, _, _)
\* The loop of fnpop: out.extend(self.pop(_m), key_attr) for each match
PopInto(src, out, matches, key_attr) ==
    IF Len(matches) = 0 THEN [src |-> src, out |-> out, err |-> "ok"]
    ELSE LET m == Head(matches)
             tr == DictGet(src.traces, m)
             src2 == [src EXCEPT !.traces = DictDel(src.traces, m)]
             r == extend(out, <<tr>>, key_attr)
         IN  IF r.err # "ok" THEN [src |-> src2, out |-> r.b, err |-> r.err]
             ELSE PopInto(src2, r.b, Tail(matches), key_attr)

\* DictStream.fnpop
fnpop(b, fnstr, key_attr) ==
    LET matches == FnFilter(DictKeys(b.traces), fnstr)
        out == NewDictStream(b.stats, b.default_key_attr).b
        r == PopInto(b, out, matches, key_attr)
    IN  IF r.err # "ok" THEN r
        ELSE [src |-> r.src,
              out |-> [r.out EXCEPT !.stats.common_id =
                                      get_common_id(r.out.traces)],
              err |-> "ok"]

(***************************************************************************)
(* The buffer under test and the calls made on it.                         *)
(***************************************************************************)
MaxTraces == 2
MaxFold == 1
TraceNpts == 2

Network == <<"U">>
Station == <<"A">>
ChanZ == <<"H", "Z">>
ChanN == <<"H", "N">>

\* Start time of the packet that follows a 1 Hz packet starting at 0
LateStart == TraceNpts * TicksPerSecond

\* A trace as handed to the buffer by its producer: no gap, fold 1.
MkTrace(sta, chan, rate, start) ==
    [network |-> Network, station |-> sta, location |-> <<>>,
     channel |-> chan, model |-> DefaultModel, weight |-> DefaultWeight,
     sampling_rate |-> rate, starttime |-> start,
     data |-> [i \in 1..TraceNpts |-> 1],
     fold |-> [i \in 1..TraceNpts |-> 1]]

\* The traces the producer hands over: two channels of one station; the
\* Z channel at two start times, the N channel at two sampling rates.
NewTraces ==
    {MkTrace(Station, ChanZ, 1, 0), MkTrace(Station, ChanZ, 1, LateStart),
     MkTrace(Station, ChanN, 1, 0), MkTrace(Station, ChanN, 2, 0)}

\* The argument of extend: one trace, or a list of two traces of different
\* channels.
TraceLists ==
    {<<t>> : t \in NewTraces} \cup
    {p \in NewTraces \X NewTraces : p[1].channel = ChanZ /\ p[2].channel = ChanN}

\* The trace assigned by ds[index] = trace
SetTraces == {MkTrace(Station, ChanN, 1, 0)}

BufKeyAttrs == {"id"}
CallKeyAttrs == {"None", "site"}
FnPatterns == {<<"*">>, <<"*", "Z">>}
SetKeys == {get_id(MkTrace(Station, ChanZ, 1, 0))}

NoBuffer == [traces |-> <<>>, stats |-> DefaultStats, default_key_attr |-> "None"]

\* No Window
NoWindow == [traces |-> <<>>, primary_component |-> <<"Z">>,
             secondary_components |-> <<>>]

\* The values of the variables of a part that is not under test
PulseIdle ==
    /\ max_pulse_size = 1
    /\ stage = [override |-> FALSE, failOn |-> {}, haltOn |-> {}]
    /\ output = <<>>
    /\ input = <<>>
    /\ inputKind = "deque"
    /\ pc = "idle"
    /\ input_measure = 0
    /\ iterno = 0
    /\ nproc = 0
    /\ in0 = <<>>
    /\ out0 = <<>>
    /\ nremoved = 0
    /\ stop = "none"

BufIdle ==
    /\ ds = NoBuffer
    /\ ret = NoBuffer
    /\ bop = [name |-> "none", key_attr |-> "None"]
    /\ berr = "ok"

WinIdle ==
    /\ win = NoWindow
    /\ wret = <<>>
    /\ wop = [name |-> "none"]
    /\ werr = "ok"

TubeIdle ==
    /\ tube = [class |-> "none", wyrm_dict |-> <<>>, attrs |-> {}]
    /\ tx = <<>>
    /\ ty = [kind |-> "None", val |-> <<>>, nproc |-> 0]
    /\ top = [name |-> "none"]
    /\ terr = "ok"

DrvIdle ==
    /\ driver = [class |-> "none", module |-> "none"]
    /\ runs = FALSE
    /\ rpc = "none"
    /\ spc = "none"
    /\ dlog = <<>>
    /\ derr = "ok"

\* The buffer stays within the bounds of the model.
BufBounded(b) ==
    /\ Len(b.traces) <= MaxTraces
    /\ \A i \in 1..Len(b.traces) :
         \A j \in 1..Len(b.traces[i].tr.fold) : b.traces[i].tr.fold[j] <= MaxFold

InitBuf ==
    /\ \E ka \in BufKeyAttrs : ds = NewDictStream(DefaultStats, ka).b
    /\ ret = NoBuffer
    /\ bop = [name |-> "__init__", key_attr |-> "None"]
    /\ berr = "ok"
    /\ PulseIdle
    /\ WinIdle
    /\ TubeIdle
    /\ DrvIdle

\* ds.extend(other, key_attr=ka)
Extend ==
    \E other \in TraceLists, ka \in CallKeyAttrs :
      LET r == extend(ds, other, ka) IN
        /\ BufBounded(r.b)
        /\ ds' = r.b
        /\ berr' = r.err
        /\ bop' = [name |-> "extend", key_attr |-> ka]
        /\ ret' = NoBuffer
        /\ UNCHANGED <<pulseVars, winVars, tubeVars, drvVars>>

\* ds[index] = trace, index an int or a key: DictStream.__setitem__
SetItem ==
    /\ \E trace \in SetTraces :
         \/ \E i \in 0..(Len(ds.traces) - 1) :
              ds' = [ds EXCEPT !.traces =
                       DictUpdate(ds.traces, DictKeys(ds.traces)[i + 1], trace)]
         \/ \E k \in SetKeys :
              /\ Len(DictUpdate(ds.traces, k, trace)) <= MaxTraces
              /\ ds' = [ds EXCEPT !.traces = DictUpdate(ds.traces, k, trace)]
    /\ berr' = "ok"
    /\ bop' = [name |-> "setitem", key_attr |-> "None"]
    /\ ret' = NoBuffer
    /\ UNCHANGED <<pulseVars, winVars, tubeVars, drvVars>>

\* del ds[index], index an int: DictStream.__delitem__
DelItem ==
    \E i \in 0..(Len(ds.traces) - 1) :
      /\ ds' = [ds EXCEPT !.traces = DictDel(ds.traces, DictKeys(ds.traces)[i + 1])]
      /\ berr' = "ok"
      /\ bop' = [name |-> "delitem", key_attr |-> "None"]
      /\ ret' = NoBuffer
      /\ UNCHANGED <<pulseVars, winVars, tubeVars, drvVars>>

\* ds.fnpop(fnstr, key_attr=ka)
FnPop ==
    \E fnstr \in FnPatterns, ka \in CallKeyAttrs :
      LET r == fnpop(ds, fnstr, ka) IN
        /\ ds' = r.src
        /\ ret' = r.out
        /\ berr' = r.err
        /\ bop' = [name |-> "fnpop", key_attr |-> ka]
        /\ UNCHANGED <<pulseVars, winVars, tubeVars, drvVars>>

NextBuf ==
    \/ Extend
    \/ SetItem
    \/ DelItem
    \/ FnPop

(***************************************************************************)
(* Window (window.py): a DictStream keyed by component character, with a   *)
(* primary component, a pair of secondary components and fill rules.       *)
(* A Window w is a record [traces, primary_component,                      *)
(* secondary_components]; component codes are strings of characters.       *)
(***************************************************************************)
\* WindowStats.defaults, in thousandths
primary_threshold == 950
secondary_threshold == 800
fold_threshold_level == 1
\* default of the tolerance argument (1e-3), in thousandths
DefaultTolerance == 1
Rules == {"zeros_fill", "clone_primary_fill", "clone_secondary_fill"}

\* MLTrace.to_zero(method): 'both' zeroes data and fold, 'fold' the fold only
to_zero(tr, method) ==
    [tr EXCEPT !.data = IF method = "both" THEN [i \in 1..Len(tr.data) |-> 0]
                        ELSE tr.data,
               !.fold = [i \in 1..Len(tr.fold) |-> 0]]

\* MLTrace.set_comp: replace the component character of the channel code
set_comp(tr, k) ==
    [tr EXCEPT !.channel =
       (IF Len(tr.channel) > 0 THEN SubSeq(tr.channel, 1, Len(tr.channel) - 1)
        ELSE <<>>) \o k]

\* x in s, for Python strings: x is a substring of s
IsSubstring(x, s) ==
    \E i \in 1..(Len(s) - Len(x) + 1) : SubSeq(s, i, i + Len(x) - 1) = x

\* MLTrace.get_fvalid_subset over the whole trace: the number of samples
\* whose fold reaches the fold threshold (the fraction is this over npts)
NValid(tr) == Cardinality({i \in 1..Len(tr.fold) : tr.fold[i] >= fold_threshold_level})

\* Mutant: the comparison is strict, a fraction equal to threshold -
\* tolerance fails.
check_fvalid_strict(w, key, tolerance) ==
    LET tr == DictGet(w.traces, key)
        thr == IF key = w.primary_component THEN primary_threshold
               ELSE secondary_threshold
    IN  1000 * NValid(tr) > (thr - tolerance) * Npts(tr)

\* Window.check_fvalid, the comparison fv >= threshold - tolerance
check_fvalid(w, key, tolerance) ==
    LET tr == DictGet(w.traces, key)
        thr == IF key = w.primary_component THEN primary_threshold
               ELSE secondary_threshold
    IN  1000 * NValid(tr) >= (thr - tolerance) * Npts(tr)

\* Window.run_fvalid_checks: check_fvalid on every key held; check_fvalid
\* raises ValueError on a tolerance outside [0, 1)
run_fvalid_checks(w, tolerance) ==
    IF Len(w.traces) > 0 /\ ~(0 <= tolerance /\ tolerance < 1000)
    THEN [fv |-> <<>>, err |-> "ValueError"]
    ELSE [fv |-> [i \in 1..Len(w.traces) |->
                    [key |-> w.traces[i].key,
                     pass |-> check_fvalid(w, w.traces[i].key, tolerance)]],
          err |-> "ok"]

FvHas(fv, k) == \E i \in 1..Len(fv) : fv[i].key = k

FvGet(fv, k) == fv[CHOOSE i \in 1..Len(fv) : fv[i].key = k].pass

\* Mutant: components of component_list without a check are left out.
AddMissing_none(fv, component_list) == fv

RECURSIVE AddMissing(_, _)
\* apply_fill_rule: components of component_list without a check fail it
AddMissing(fv, component_list) ==
    IF Len(component_list) = 0 THEN fv
    ELSE LET k == <<Head(component_list)>>
         IN  AddMissing(IF FvHas(fv, k) THEN fv
                        ELSE Append(fv, [key |-> k, pass |-> FALSE]),
                        Tail(component_list))

\* Window.__init__
WindowInit(traces, primary_component) ==
    LET d == NewDictStream(DefaultStats, "comp")
        none == [traces |-> <<>>, primary_component |-> primary_component,
                 secondary_components |-> <<>>]
    IN  IF d.err # "ok" THEN [w |-> none, err |-> d.err]
        ELSE
          LET e == extend(d.b, traces, "None")
          IN  IF e.err # "ok" THEN [w |-> none, err |-> e.err]
              ELSE IF ~DictHas(e.b.traces, primary_component)
              THEN [w |-> none, err |-> "MissingPrimaryComponent"]
              ELSE [w |-> [none EXCEPT !.traces = e.b.traces], err |-> "ok"]

\* Window.set_secondary_components: the loop pops from self.traces while it
\* iterates over self.traces.keys(); after the first pop the iterator raises
\* RuntimeError (dictionary changed size during iteration).
set_secondary_components(w, secondary_components) ==
    IF Len(secondary_components) # 2
    THEN [w |-> w, popped |-> <<>>, err |-> "ValueError"]
    ELSE IF secondary_components[1] = secondary_components[2]
    THEN [w |-> w, popped |-> <<>>, err |-> "ValueError"]
    ELSE
      LET component_list == secondary_components \o w.primary_component
          w1 == [w EXCEPT !.secondary_components = secondary_components]
          unlisted == SelectSeq(DictKeys(w.traces),
                                LAMBDA k : ~IsSubstring(k, component_list))
      IN  IF Len(unlisted) = 0 THEN [w |-> w1, popped |-> <<>>, err |-> "ok"]
          ELSE [w |-> [w1 EXCEPT !.traces = DictDel(w.traces, unlisted[1])],
                popped |-> <<>>, err |-> "RuntimeError"]

RECURSIVE FillFrom(_, _, _)
\* The loop of zeros_fill and clone_primary_fill: every component of
\* fv_checks that is not the primary and fails gets a copy of tr0 with the
\* component code set
FillFrom(w, fv_checks, tr0) ==
    IF Len(fv_checks) = 0 THEN w
    ELSE LET k == Head(fv_checks).key
             w2 == IF k # w.primary_component /\ ~Head(fv_checks).pass
                   THEN [w EXCEPT !.traces =
                           DictUpdate(w.traces, k, set_comp(tr0, k))]
                   ELSE w
         IN  FillFrom(w2, Tail(fv_checks), tr0)

\* Mutant: the 0-trace is made of the primary itself, not of a copy of it.
zeros_fill_nocopy(w, fv_checks) ==
    IF ~DictHas(w.traces, w.primary_component) THEN [w |-> w, err |-> "KeyError"]
    ELSE IF FvGet(fv_checks, w.primary_component)
    THEN LET tr0 == to_zero(DictGet(w.traces, w.primary_component), "both")
             wz == [w EXCEPT !.traces =
                      DictUpdate(w.traces, w.primary_component, tr0)]
         IN  [w |-> FillFrom(wz, fv_checks, tr0), err |-> "ok"]
    ELSE [w |-> w, err |-> "ValueError"]

\* Mutant: the secondaries are filled before the primary's check is looked
\* at.
zeros_fill_fillfirst(w, fv_checks) ==
    IF ~DictHas(w.traces, w.primary_component) THEN [w |-> w, err |-> "KeyError"]
    ELSE LET tr0 == to_zero(DictGet(w.traces, w.primary_component), "both")
             wf == FillFrom(w, fv_checks, tr0)
         IN  IF FvGet(fv_checks, w.primary_component)
             THEN [w |-> wf, err |-> "ok"]
             ELSE [w |-> wf, err |-> "ValueError"]

\* Window.zeros_fill
zeros_fill(w, fv_checks) ==
    IF ~DictHas(w.traces, w.primary_component) THEN [w |-> w, err |-> "KeyError"]
    ELSE IF FvGet(fv_checks, w.primary_component)
    THEN LET tr0 == to_zero(DictGet(w.traces, w.primary_component), "both")
         IN  [w |-> FillFrom(w, fv_checks, tr0), err |-> "ok"]
    ELSE [w |-> w, err |-> "ValueError"]

\* Mutant: the clone is zeroed in data as well as in fold, as zeros_fill
\* makes it.
clone_primary_fill_zeroed(w, fv_checks) ==
    IF ~DictHas(w.traces, w.primary_component) THEN [w |-> w, err |-> "KeyError"]
    ELSE IF FvGet(fv_checks, w.primary_component)
    THEN LET tr0 == to_zero(DictGet(w.traces, w.primary_component), "both")
         IN  [w |-> FillFrom(w, fv_checks, tr0), err |-> "ok"]
    ELSE [w |-> w, err |-> "ValueError"]

\* Window.clone_primary_fill
clone_primary_fill(w, fv_checks) ==
    IF ~DictHas(w.traces, w.primary_component) THEN [w |-> w, err |-> "KeyError"]
    ELSE IF FvGet(fv_checks, w.primary_component)
    THEN LET tr0 == to_zero(DictGet(w.traces, w.primary_component), "fold")
         IN  [w |-> FillFrom(w, fv_checks, tr0), err |-> "ok"]
    ELSE [w |-> w, err |-> "ValueError"]

\* Mutant: a failing secondary is always filled from the primary, also when
\* the other secondary passes.
clone_secondary_fill_primary(w, fv_checks) ==
    IF ~DictHas(w.traces, w.primary_component) THEN [w |-> w, err |-> "KeyError"]
    ELSE IF ~FvGet(fv_checks, w.primary_component)
    THEN [w |-> w, err |-> "ValueError"]
    ELSE IF Len(w.secondary_components) # 2
    THEN [w |-> w, err |-> "NotImplementedError"]
    ELSE IF \A i \in 1..Len(fv_checks) : fv_checks[i].pass
    THEN [w |-> w, err |-> "ok"]
    ELSE clone_primary_fill(w, fv_checks)

\* Window.clone_secondary_fill
clone_secondary_fill(w, fv_checks) ==
    IF ~DictHas(w.traces, w.primary_component) THEN [w |-> w, err |-> "KeyError"]
    ELSE IF ~FvGet(fv_checks, w.primary_component)
    THEN [w |-> w, err |-> "ValueError"]
    ELSE
      LET scc == w.secondary_components
          s1 == <<scc[1]>>
          s2 == <<scc[2]>>
      IN  IF Len(scc) # 2 THEN [w |-> w, err |-> "NotImplementedError"]
          ELSE IF \A i \in 1..Len(fv_checks) : fv_checks[i].pass
          THEN [w |-> w, err |-> "ok"]
          ELSE IF ~FvGet(fv_checks, s1) /\ ~FvGet(fv_checks, s2)
          THEN clone_primary_fill(w, fv_checks)
          ELSE IF FvGet(fv_checks, s1) # FvGet(fv_checks, s2)
          THEN IF FvGet(fv_checks, s1)
               THEN [w |-> [w EXCEPT !.traces = DictUpdate(w.traces, s2,
                              set_comp(to_zero(DictGet(w.traces, s1), "fold"), s2))],
                     err |-> "ok"]
               ELSE [w |-> [w EXCEPT !.traces = DictUpdate(w.traces, s1,
                              set_comp(to_zero(DictGet(w.traces, s2), "fold"), s1))],
                     err |-> "ok"]
          ELSE [w |-> w, err |-> "ValueError"]

\* Mutant: the Segments a fill replaces are returned with the removed ones.
apply_fill_rule_replaced(w, secondary_components, rule, tolerance) ==
    IF rule \notin Rules THEN [w |-> w, ret |-> <<>>, err |-> "ValueError"]
    ELSE
      LET s == set_secondary_components(w, secondary_components)
      IN  IF s.err # "ok" THEN [w |-> s.w, ret |-> <<>>, err |-> s.err]
          ELSE
            LET component_list == s.w.primary_component \o
                                  s.w.secondary_components
                c == run_fvalid_checks(s.w, tolerance)
                fv_checks == AddMissing(c.fv, component_list)
                f == IF rule = "zeros_fill" THEN zeros_fill(s.w, fv_checks)
                     ELSE IF rule = "clone_primary_fill"
                     THEN clone_primary_fill(s.w, fv_checks)
                     ELSE clone_secondary_fill(s.w, fv_checks)
                replaced == SelectSeq(s.w.traces,
                                      LAMBDA e : ~FvGet(fv_checks, e.key))
            IN  IF c.err # "ok" THEN [w |-> s.w, ret |-> <<>>, err |-> c.err]
                ELSE IF \A i \in 1..Len(fv_checks) : fv_checks[i].pass
                THEN [w |-> s.w, ret |-> s.popped, err |-> "ok"]
                ELSE IF f.err # "ok" THEN [w |-> f.w, ret |-> <<>>, err |-> f.err]
                ELSE [w |-> f.w, ret |-> s.popped \o replaced, err |-> "ok"]

\* Window.apply_fill_rule: the Window after the call, the list returned and
\* the exception raised
apply_fill_rule(w, secondary_components, rule, tolerance) ==
    IF rule \notin Rules THEN [w |-> w, ret |-> <<>>, err |-> "ValueError"]
    ELSE
      LET s == set_secondary_components(w, secondary_components)
      IN  IF s.err # "ok" THEN [w |-> s.w, ret |-> <<>>, err |-> s.err]
          ELSE
            LET component_list == s.w.primary_component \o
                                  s.w.secondary_components
                c == run_fvalid_checks(s.w, tolerance)
                fv_checks == AddMissing(c.fv, component_list)
                f == IF rule = "zeros_fill" THEN zeros_fill(s.w, fv_checks)
                     ELSE IF rule = "clone_primary_fill"
                     THEN clone_primary_fill(s.w, fv_checks)
                     ELSE clone_secondary_fill(s.w, fv_checks)
            IN  IF c.err # "ok" THEN [w |-> s.w, ret |-> <<>>, err |-> c.err]
                ELSE IF \A i \in 1..Len(fv_checks) : fv_checks[i].pass
                THEN [w |-> s.w, ret |-> s.popped, err |-> "ok"]
                ELSE IF f.err # "ok" THEN [w |-> f.w, ret |-> <<>>, err |-> f.err]
                ELSE [w |-> f.w, ret |-> s.popped, err |-> "ok"]

(***************************************************************************)
(* The Window under test and the calls made on it.                         *)
(***************************************************************************)
\* A trace of component c of the station: passing traces have fold 1 on
\* every sample, failing traces on the first sample only.
MkWinTrace(c, passing, val) ==
    [MkTrace(Station, <<"H", c>>, 1, 0) EXCEPT
       !.data = [i \in 1..TraceNpts |-> val],
       !.fold = [i \in 1..TraceNpts |-> IF passing \/ i = 1 THEN 1 ELSE 0]]

\* The components of the station, in the two orders the traces may come in
CompOrders == {<<"Z", "N", "E", "1", "2">>, <<"1", "N", "Z", "2", "E">>}

\* What a Window may hold of each component: the primary Z is held; N and E
\* may be absent or fail their check; the other components pass theirs.
CompStates(c) ==
    IF c = "Z" THEN {"pass", "fail"}
    ELSE IF c \in {"N", "E"} THEN {"absent", "pass", "fail"}
    ELSE {"absent", "pass"}

CompValue(c) ==
    CASE c = "Z" -> 1 [] c = "N" -> 2 [] c = "E" -> 3 [] OTHER -> 4

\* The component-keyed traces of a Window that holds the components of
\* order as st tells
WinTraces(order, st) ==
    LET idx == SelectSeq([i \in 1..Len(order) |-> i],
                         LAMBDA i : st[i] # "absent")
    IN  [j \in 1..Len(idx) |->
           [key |-> <<order[idx[j]]>>,
            tr |-> MkWinTrace(order[idx[j]], st[idx[j]] = "pass",
                              CompValue(order[idx[j]]))]]

\* The Windows the fill rules are called on: the traces of one station keyed
\* by component, the primary component among them.
InitWin ==
    /\ \E order \in CompOrders :
         \E st \in {f \in [1..Len(order) -> {"absent", "pass", "fail"}] :
                      \A i \in 1..Len(order) : f[i] \in CompStates(order[i])} :
           win = [NoWindow EXCEPT !.traces = WinTraces(order, st)]
    /\ wret = <<>>
    /\ wop = [name |-> "none"]
    /\ werr = "ok"
    /\ PulseIdle
    /\ BufIdle
    /\ TubeIdle
    /\ DrvIdle

\* The arguments of Window(traces, primary_component=p)
WinLists ==
    {<<MkWinTrace("Z", TRUE, 1)>>, <<MkWinTrace("N", TRUE, 2)>>,
     <<MkWinTrace("Z", TRUE, 1), MkWinTrace("N", TRUE, 2)>>,
     <<MkWinTrace("N", TRUE, 2), MkWinTrace("E", TRUE, 3)>>}

\* Window(traces, primary_component=p): a construction that raises yields
\* no Window
Construct ==
    \E traces \in WinLists, p \in {<<"Z">>, <<"N">>} :
      LET r == WindowInit(traces, p) IN
        /\ win' = IF r.err = "ok" THEN r.w ELSE win
        /\ werr' = r.err
        /\ wret' = <<>>
        /\ wop' = [name |-> "construct",
                   comps |-> [i \in 1..Len(traces) |-> get_comp(traces[i])],
                   primary |-> p]
        /\ UNCHANGED <<pulseVars, bufVars, tubeVars, drvVars>>

SecondaryArgs ==
    {<<"N", "E">>, <<"E", "N">>, <<"N">>, <<"N", "N">>, <<"Z", "N">>}
RuleArgs == Rules \cup {"ones_fill"}
ToleranceArgs == {DefaultTolerance, 1000}

\* The last call on the Window was apply_fill_rule with these arguments
\* and it returned
SameCallReturned(sec, rule, tol) ==
    /\ wop.name = "apply_fill_rule"
    /\ werr = "ok"
    /\ wop.sec = sec
    /\ wop.rule = rule
    /\ wop.tol = tol

\* win.apply_fill_rule(secondary_components=sec, rule=rule, tolerance=tol)
ApplyFillRule ==
    \E sec \in SecondaryArgs, rule \in RuleArgs, tol \in ToleranceArgs :
      LET r == apply_fill_rule(win, sec, rule, tol) IN
        /\ win' = r.w
        /\ wret' = r.ret
        /\ werr' = r.err
        /\ wop' = [name |-> "apply_fill_rule", sec |-> sec, rule |-> rule,
                   tol |-> tol, again |-> SameCallReturned(sec, rule, tol)]
        /\ UNCHANGED <<pulseVars, bufVars, tubeVars, drvVars>>

\* win.zeros_fill(fv_checks), fv_checks made as apply_fill_rule makes it for
\* the secondary components sec
ZerosFill ==
    \E sec \in {<<"N", "E">>, <<"E", "N">>} :
      LET c == run_fvalid_checks(win, DefaultTolerance)
          r == zeros_fill(win, AddMissing(c.fv, win.primary_component \o sec))
      IN
        /\ win' = r.w
        /\ wret' = <<>>
        /\ werr' = r.err
        /\ wop' = [name |-> "zeros_fill", sec |-> sec, rule |-> "zeros_fill",
                   tol |-> DefaultTolerance]
        /\ UNCHANGED <<pulseVars, bufVars, tubeVars, drvVars>>

\* del win[primary_component]: DictStream.__delitem__ with a str index, on
\* the traces dictionary of the Window; a key not held raises KeyError
WinDelItem ==
    LET key == win.primary_component IN
      /\ win' = IF DictHas(win.traces, key)
                THEN [win EXCEPT !.traces = DictDel(win.traces, key)]
                ELSE win
      /\ werr' = IF DictHas(win.traces, key) THEN "ok" ELSE "KeyError"
      /\ wret' = <<>>
      /\ wop' = [name |-> "delitem", key |-> key]
      /\ UNCHANGED <<pulseVars, bufVars, tubeVars, drvVars>>

NextWin ==
    \/ Construct
    \/ ApplyFillRule
    \/ ZerosFill
    \/ WinDelItem

(***************************************************************************)
(* Wyrm: units, stage hooks.                                               *)
(***************************************************************************)
Units == {1, 2}

\* A stage-specific unit transformation of a subclass (not the identity).
UnitTransform(u) == u + 10

UnitOutputs == {UnitTransform(u) : u \in Units}

\* A stage is the base Wyrm (override = FALSE) or a subclass that overrides
\* _unit_process (fails on the units in failOn) and _run_next_iteration
\* (returns False on the unit outputs in haltOn; haltOn = {} is the default).
Stages ==
    {[override |-> FALSE, failOn |-> {}, haltOn |-> {}]} \cup
    [override : {TRUE}, failOn : SUBSET Units, haltOn : SUBSET UnitOutputs]

\* Wyrm._measure_input
measure_input(kind, inp, mps) == IF kind = "None" THEN mps ELSE Len(inp)

\* Mutant: the criterion of the docstring (iterno + 1 <= len(input)), taken
\* on the current length instead of the measure made before the loop.
run_this_iteration_len(kind, inp, measure, i) ==
    /\ kind = "deque"
    /\ Len(inp) > 0
    /\ i + 1 <= Len(inp)

\* Wyrm._run_this_iteration
run_this_iteration(kind, inp, measure, i) ==
    /\ kind = "deque"
    /\ Len(inp) > 0
    /\ i + 1 <= measure

\* Wyrm._unit_process: the base class body reads the undefined name obj
\* (NameError); a subclass returns its transformation or raises.
unit_process(st, u) ==
    IF ~st.override THEN [ok |-> FALSE, val |-> 0]
    ELSE IF u \in st.failOn THEN [ok |-> FALSE, val |-> 0]
    ELSE [ok |-> TRUE, val |-> UnitTransform(u)]

\* Wyrm._run_next_iteration (status = True unless overridden)
run_next_iteration(st, unit_output) == unit_output \notin st.haltOn

capture_unit_output_left(out, unit_output) == <<unit_output>> \o out

\* Wyrm._capture_unit_output
capture_unit_output(out, unit_output) == Append(out, unit_output)

InitPulse ==
    /\ max_pulse_size \in 1..MaxPulseSize
    /\ stage \in Stages
    /\ output = <<>>
    /\ input = <<>>
    /\ inputKind = "deque"
    /\ pc = "idle"
    /\ input_measure = 0
    /\ iterno = 0
    /\ nproc = 0
    /\ in0 = <<>>
    /\ out0 = <<>>
    /\ nremoved = 0
    /\ stop = "none"
    /\ BufIdle
    /\ WinIdle
    /\ TubeIdle
    /\ DrvIdle

\* The caller appends a unit to its deque between two pulses (the result of
\* the last pulse, if any, has been taken: pc goes back to "idle").
Feed ==
    /\ pc # "loop"
    /\ Len(input) < MaxInput
    /\ \E u \in Units : input' = Append(input, u)
    /\ pc' = "idle"
    /\ UNCHANGED <<max_pulse_size, output, stage, inputKind, input_measure,
                   iterno, nproc, in0, out0, nremoved, stop>>
    /\ UNCHANGED <<bufVars, winVars, tubeVars, drvVars>>

\* pulse(input) is called: lines 113-115.
PulseCall ==
    /\ pc # "loop"
    /\ Len(output) + max_pulse_size <= MaxOutput
    /\ \E k \in {"deque", "None"} :
         /\ inputKind' = k
         /\ input_measure' = measure_input(k, input, max_pulse_size)
    /\ pc' = "loop"
    /\ iterno' = 0
    /\ nproc' = 0
    /\ in0' = input
    /\ out0' = output
    /\ nremoved' = 0
    /\ stop' = "none"
    /\ UNCHANGED <<max_pulse_size, output, stage, input>>
    /\ UNCHANGED <<bufVars, winVars, tubeVars, drvVars>>

\* One iteration in which _run_this_iteration returns False: break.
IterBreakThis ==
    /\ pc = "loop"
    /\ iterno < max_pulse_size
    /\ ~run_this_iteration(inputKind, input, input_measure, iterno)
    /\ pc' = "returned"
    /\ stop' = "run_this"
    /\ UNCHANGED <<max_pulse_size, output, stage, input, inputKind,
                   input_measure, iterno, nproc, in0, out0, nremoved>>
    /\ UNCHANGED <<bufVars, winVars, tubeVars, drvVars>>

\* Mutant: the failure of _unit_process is caught and the loop goes on.
IterRaise_caught ==
    /\ pc = "loop"
    /\ iterno < max_pulse_size
    /\ run_this_iteration(inputKind, input, input_measure, iterno)
    /\ ~unit_process(stage, Head(input)).ok
    /\ input' = Tail(input)
    /\ nremoved' = nremoved + 1
    /\ iterno' = iterno + 1
    /\ UNCHANGED <<max_pulse_size, output, stage, inputKind, input_measure,
                   pc, stop, nproc, in0, out0>>
    /\ UNCHANGED <<bufVars, winVars, tubeVars, drvVars>>

\* One iteration in which _unit_process raises: the unit was popped, the
\* exception leaves pulse().
IterRaise ==
    /\ pc = "loop"
    /\ iterno < max_pulse_size
    /\ run_this_iteration(inputKind, input, input_measure, iterno)
    /\ ~unit_process(stage, Head(input)).ok
    /\ input' = Tail(input)
    /\ nremoved' = nremoved + 1
    /\ pc' = "raised"
    /\ stop' = "raised"
    /\ UNCHANGED <<max_pulse_size, output, stage, inputKind, input_measure,
                   iterno, nproc, in0, out0>>
    /\ UNCHANGED <<bufVars, winVars, tubeVars, drvVars>>

\* Mutant: the result of _run_next_iteration is ignored (no break).
IterBreakNext_noBreak ==
    /\ pc = "loop"
    /\ iterno < max_pulse_size
    /\ run_this_iteration(inputKind, input, input_measure, iterno)
    /\ LET r == unit_process(stage, Head(input)) IN
         /\ r.ok
         /\ ~run_next_iteration(stage, r.val)
         /\ output' = capture_unit_output(output, r.val)
    /\ input' = Tail(input)
    /\ nremoved' = nremoved + 1
    /\ nproc' = nproc + 1
    /\ iterno' = iterno + 1
    /\ UNCHANGED <<max_pulse_size, stage, inputKind, pc, input_measure,
                   in0, out0, stop>>
    /\ UNCHANGED <<bufVars, winVars, tubeVars, drvVars>>

\* One iteration that ran and after which _run_next_iteration returns False.
IterBreakNext ==
    /\ pc = "loop"
    /\ iterno < max_pulse_size
    /\ run_this_iteration(inputKind, input, input_measure, iterno)
    /\ LET r == unit_process(stage, Head(input)) IN
         /\ r.ok
         /\ ~run_next_iteration(stage, r.val)
         /\ output' = capture_unit_output(output, r.val)
    /\ input' = Tail(input)
    /\ nremoved' = nremoved + 1
    /\ nproc' = nproc + 1
    /\ pc' = "returned"
    /\ stop' = "run_next"
    /\ UNCHANGED <<max_pulse_size, stage, inputKind, input_measure, iterno,
                   in0, out0>>
    /\ UNCHANGED <<bufVars, winVars, tubeVars, drvVars>>

\* One iteration that ran and lets the loop go on.
IterContinue ==
    /\ pc = "loop"
    /\ iterno < max_pulse_size
    /\ run_this_iteration(inputKind, input, input_measure, iterno)
    /\ LET r == unit_process(stage, Head(input)) IN
         /\ r.ok
         /\ run_next_iteration(stage, r.val)
         /\ output' = capture_unit_output(output, r.val)
    /\ input' = Tail(input)
    /\ nremoved' = nremoved + 1
    /\ nproc' = nproc + 1
    /\ iterno' = iterno + 1
    /\ UNCHANGED <<max_pulse_size, stage, inputKind, pc, input_measure,
                   in0, out0, stop>>
    /\ UNCHANGED <<bufVars, winVars, tubeVars, drvVars>>

\* range(max_pulse_size) is exhausted: the for loop ends, pulse returns.
LoopExhausted ==
    /\ pc = "loop"
    /\ iterno = max_pulse_size
    /\ pc' = "returned"
    /\ stop' = "bound"
    /\ UNCHANGED <<max_pulse_size, output, stage, input, inputKind,
                   input_measure, iterno, nproc, in0, out0, nremoved>>
    /\ UNCHANGED <<bufVars, winVars, tubeVars, drvVars>>

NextPulse ==
    \/ Feed
    \/ PulseCall
    \/ IterBreakThis
    \/ IterRaise
    \/ IterBreakNext
    \/ IterContinue
    \/ LoopExhausted

(***************************************************************************)
(* The completeness checks on their own: check_fvalid and                  *)
(* run_fvalid_checks called on Windows whose traces hold every number of   *)
(* valid samples, with tolerances that put threshold - tolerance on a      *)
(* fraction the traces can have.                                           *)
(***************************************************************************)
ChkNpts == 4

\* Window.check_fvalid as called: the exception it raises and its result,
\* written as the entry [key, pass] that run_fvalid_checks makes of it
\* (pass = FALSE is Python's False, which equals 0); no entry when it raises
check_fvalid_guarded(w, key, tolerance) ==
    IF ~(0 <= tolerance /\ tolerance < 1000)
    THEN [ret |-> <<>>, err |-> "ValueError"]
    ELSE IF ~DictHas(w.traces, key)
    THEN [ret |-> <<>>, err |-> "KeyError"]
    ELSE [ret |-> <<[key |-> key, pass |-> check_fvalid(w, key, tolerance)]>>,
          err |-> "ok"]

\* A trace of component c with ChkNpts samples, the first nvalid of them
\* with fold 1 and the others with fold 0
MkChkTrace(c, nvalid) ==
    [MkTrace(Station, <<"H", c>>, 1, 0) EXCEPT
       !.data = [i \in 1..ChkNpts |-> CompValue(c)],
       !.fold = [i \in 1..ChkNpts |-> IF i <= nvalid THEN 1 ELSE 0]]

ChkComps == <<"Z", "N", "E">>

\* The traces of a Window that holds component ChkComps[i] with nv[i] valid
\* samples, or not at all (nv[i] = None)
ChkTraces(nv) ==
    LET idx == SelectSeq([i \in 1..Len(ChkComps) |-> i],
                         LAMBDA i : nv[i] # None)
    IN  [j \in 1..Len(idx) |->
           [key |-> <<ChkComps[idx[j]]>>,
            tr |-> MkChkTrace(ChkComps[idx[j]], nv[idx[j]])]]

\* Tolerances in thousandths: the default, and values that make
\* threshold - tolerance 0.8, 0.75, 0.6 and 0.5; 1.0 is out of range
ChkTolerances == {0, DefaultTolerance, 50, 200, 300, 450, 1000}

InitChk ==
    /\ \E nv \in [1..Len(ChkComps) -> {None} \cup 0..ChkNpts] :
         win = [NoWindow EXCEPT !.traces = ChkTraces(nv)]
    /\ wret = <<>>
    /\ wop = [name |-> "none"]
    /\ werr = "ok"
    /\ PulseIdle
    /\ BufIdle
    /\ TubeIdle
    /\ DrvIdle

\* win.run_fvalid_checks(tolerance=tol)
RunFvalidChecks ==
    \E tol \in ChkTolerances :
      LET r == run_fvalid_checks(win, tol) IN
        /\ wret' = r.fv
        /\ werr' = r.err
        /\ wop' = [name |-> "run_fvalid_checks", tol |-> tol]
        /\ UNCHANGED win
        /\ UNCHANGED <<pulseVars, bufVars, tubeVars, drvVars>>

\* win.check_fvalid(key, tolerance=tol)
CheckFvalid ==
    \E i \in 1..Len(ChkComps), tol \in ChkTolerances :
      LET r == check_fvalid_guarded(win, <<ChkComps[i]>>, tol) IN
        /\ wret' = r.ret
        /\ werr' = r.err
        /\ wop' = [name |-> "check_fvalid", key |-> <<ChkComps[i]>>,
                   tol |-> tol]
        /\ UNCHANGED win
        /\ UNCHANGED <<pulseVars, bufVars, tubeVars, drvVars>>

NextChk ==
    \/ RunFvalidChecks
    \/ CheckFvalid

(***************************************************************************)
(* Alignment and export (window.py): a Window with target start time,      *)
(* sampling rate and number of samples, traces that match the targets or   *)
(* diverge from them, align_to_targets, ready_to_burn and to_npy_tensor.   *)
(* Here a Window record also has the fields target_starttime,              *)
(* target_sampling_rate and target_npts (None when unset), a trace the     *)
(* field masked (its data is a numpy MaskedArray), and a model is a record *)
(* [component_order, in_samples] of a seisbench WaveformModel.             *)
(***************************************************************************)
in_samples == 2

\* Window.check_windowing_status(mode='full'), the definition of line 519
\* that replaces the one of line 217: for every key held, whether start
\* time, sampling rate and number of samples equal the targets and whether
\* the data is free of a mask; ValueError on an unset target
check_windowing_status(w) ==
    IF \/ w.target_starttime = None
       \/ w.target_sampling_rate = None
       \/ w.target_npts = None
    THEN [status |-> <<>>, err |-> "ValueError"]
    ELSE [status |->
            [i \in 1..Len(w.traces) |->
               LET tr == w.traces[i].tr IN
                 [key |-> w.traces[i].key,
                  starttime |-> tr.starttime = w.target_starttime,
                  sampling_rate |-> tr.sampling_rate = w.target_sampling_rate,
                  npts |-> Npts(tr) = w.target_npts,
                  mask_free |-> ~tr.masked]],
          err |-> "ok"]

\* Window.align_to_targets: TypeError on an unset target; otherwise the
\* checks are run and the loop header calls self.items(), a method that
\* neither Window nor DictStream nor obspy's Stream has: AttributeError
\* before the first component is looked at, align_sampling is never called
align_to_targets(w) ==
    IF \/ w.target_starttime = None
       \/ w.target_npts = None
       \/ w.target_sampling_rate = None
    THEN [w |-> w, err |-> "TypeError"]
    ELSE LET check_results == check_windowing_status(w)
         IN  IF check_results.err # "ok" THEN [w |-> w, err |-> check_results.err]
             ELSE [w |-> w, err |-> "AttributeError"]

\* Window.ready_to_burn(model), for a model of a WaveformModel subclass
ready_to_burn(w, model) ==
    LET trs == {w.traces[i].tr : i \in 1..Len(w.traces)} IN
      IF \E tr \in trs : tr.masked THEN FALSE
      ELSE IF ~(\A tr \in trs : tr.starttime = w.target_starttime) THEN FALSE
      ELSE IF ~(\A tr \in trs : Npts(tr) = model.in_samples) THEN FALSE
      ELSE IF ~(\A i \in 1..Len(w.traces) :
                  IsSubstring(w.traces[i].key, model.component_order))
      THEN FALSE
      ELSE IF ~(\A tr \in trs : tr.sampling_rate = w.target_sampling_rate)
      THEN FALSE
      ELSE TRUE

\* Window.to_npy_tensor(model): ValueError when the Window is not ready;
\* otherwise the data of self[c] for c in model.component_order, one row
\* each, and self[c] raises KeyError for a component that is not held
to_npy_tensor(w, model) ==
    IF ~ready_to_burn(w, model) THEN [ret |-> <<>>, err |-> "ValueError"]
    ELSE IF \E i \in 1..Len(model.component_order) :
              ~DictHas(w.traces, <<model.component_order[i]>>)
    THEN [ret |-> <<>>, err |-> "KeyError"]
    ELSE [ret |-> [i \in 1..Len(model.component_order) |->
                     DictGet(w.traces, <<model.component_order[i]>>).data],
          err |-> "ok"]

\* The states a component's trace may be in: matching the targets, starting
\* late, sampled at twice the rate, one sample short, or masked
ExpStates == {"aligned", "late", "fast", "short", "masked"}

\* A trace of component c in state st
MkExpTrace(c, st) ==
    LET n == IF st = "short" THEN in_samples - 1 ELSE in_samples IN
      [network |-> Network, station |-> Station, location |-> <<>>,
       channel |-> <<"H", c>>, model |-> DefaultModel, weight |-> DefaultWeight,
       sampling_rate |-> IF st = "fast" THEN 2 ELSE 1,
       starttime |-> IF st = "late" THEN TicksPerSecond ELSE 0,
       data |-> [i \in 1..n |-> CompValue(c)],
       fold |-> [i \in 1..n |-> 1],
       masked |-> st = "masked"]

ExpComps == <<"Z", "N", "E", "1">>

\* What a Window may hold of each component: Z, N and E in any state or
\* not at all, the fourth component matching the targets or not at all
ExpCompStates(c) ==
    IF c = "1" THEN {"absent", "aligned"} ELSE {"absent"} \cup ExpStates

ExpTraces(st) ==
    LET idx == SelectSeq([i \in 1..Len(ExpComps) |-> i],
                         LAMBDA i : st[i] # "absent")
    IN  [j \in 1..Len(idx) |->
           [key |-> <<ExpComps[idx[j]]>>,
            tr |-> MkExpTrace(ExpComps[idx[j]], st[idx[j]])]]

\* The models of the export: the two component orders, in_samples samples
ExpModels ==
    {[component_order |-> <<"Z", "N", "E">>, in_samples |-> in_samples],
     [component_order |-> <<"Z", "E", "N">>, in_samples |-> in_samples]}

\* The Windows of the alignment and the export: targets all set (start 0,
\* rate 1, in_samples samples) or the target start time unset
InitExp ==
    /\ \E st \in {f \in [1..Len(ExpComps) -> {"absent"} \cup ExpStates] :
                    \A i \in 1..Len(ExpComps) : f[i] \in ExpCompStates(ExpComps[i])},
          t0 \in {0, None} :
         win = [traces |-> ExpTraces(st), primary_component |-> <<"Z">>,
                secondary_components |-> <<>>,
                target_starttime |-> t0, target_sampling_rate |-> 1,
                target_npts |-> in_samples]
    /\ wret = <<>>
    /\ wop = [name |-> "none"]
    /\ werr = "ok"
    /\ PulseIdle
    /\ BufIdle
    /\ TubeIdle
    /\ DrvIdle

\* win.align_to_targets()
AlignToTargets ==
    LET r == align_to_targets(win) IN
      /\ win' = r.w
      /\ wret' = <<>>
      /\ werr' = r.err
      /\ wop' = [name |-> "align_to_targets"]
      /\ UNCHANGED <<pulseVars, bufVars, tubeVars, drvVars>>

\* win.ready_to_burn(model): the status is kept as the error word "ok"
\* (True) or "NotReady" (False)
ReadyToBurn ==
    \E model \in ExpModels :
      /\ werr' = IF ready_to_burn(win, model) THEN "ok" ELSE "NotReady"
      /\ wret' = <<>>
      /\ wop' = [name |-> "ready_to_burn", model |-> model]
      /\ UNCHANGED win
      /\ UNCHANGED <<pulseVars, bufVars, tubeVars, drvVars>>

\* win.to_npy_tensor(model)
ToNpyTensor ==
    \E model \in ExpModels :
      LET r == to_npy_tensor(win, model) IN
        /\ wret' = r.ret
        /\ werr' = r.err
        /\ wop' = [name |-> "to_npy_tensor", model |-> model]
        /\ UNCHANGED win
        /\ UNCHANGED <<pulseVars, bufVars, tubeVars, drvVars>>

NextExp ==
    \/ AlignToTargets
    \/ ReadyToBurn
    \/ ToNpyTensor

(***************************************************************************)
(* check_windowing_status in its output modes.  The value returned (a      *)
(* bool, a dict or a DataFrame) is written as a sequence of entries        *)
(* [key, attr, val]: one entry per component and attribute for 'full', one *)
(* entry per component with attr "all" for 'trace', one entry per          *)
(* attribute with key "*" for 'attribute' and the one entry                *)
(* [key "*", attr "all"] for 'summary'.                                    *)
(***************************************************************************)
\* The columns of bool_array: the keys of ref, then the mask test
StatusAttrs == <<"starttime", "sampling_rate", "npts", "mask_free">>

StatusModes == {"summary", "attribute", "trace", "full"}

\* Mutant: the summary is taken over the three target attributes only and
\* leaves the mask test out.
check_windowing_status_nomask(w, mode) ==
    LET full == check_windowing_status(w)
        row(i) == /\ full.status[i].starttime
                  /\ full.status[i].sampling_rate
                  /\ full.status[i].npts
        n == Len(w.traces)
    IN  IF full.err # "ok" THEN [status |-> <<>>, err |-> full.err]
        ELSE IF mode \notin StatusModes
        THEN [status |-> <<>>, err |-> "UnboundLocalError"]
        ELSE IF mode = "summary"
        THEN [status |-> <<[key |-> <<"*">>, attr |-> "all",
                            val |-> \A i \in 1..n : row(i)]>>,
              err |-> "ok"]
        ELSE IF n = 0
        THEN [status |-> <<>>,
              err |-> CASE mode = "trace" -> "AxisError"
                        [] mode = "attribute" -> "TypeError"
                        [] OTHER -> "ValueError"]
        ELSE IF mode = "trace"
        THEN [status |-> [i \in 1..n |->
                            [key |-> w.traces[i].key, attr |-> "all",
                             val |-> row(i) /\ full.status[i].mask_free]],
              err |-> "ok"]
        ELSE IF mode = "attribute"
        THEN [status |-> [a \in 1..Len(StatusAttrs) |->
                            [key |-> <<"*">>, attr |-> StatusAttrs[a],
                             val |-> \A i \in 1..n :
                                       full.status[i][StatusAttrs[a]]]],
              err |-> "ok"]
        ELSE [status |-> [j \in 1..(n * Len(StatusAttrs)) |->
                            LET i == ((j - 1) \div Len(StatusAttrs)) + 1
                                a == ((j - 1) % Len(StatusAttrs)) + 1
                            IN  [key |-> w.traces[i].key, attr |-> StatusAttrs[a],
                                 val |-> full.status[i][StatusAttrs[a]]]],
              err |-> "ok"]

\* Window.check_windowing_status(mode=mode), the definition of line 519:
\* bool_array has one line per trace, and the mode picks all(), all(axis=0),
\* all(axis=1) or the whole array; a mode that is none of the four leaves
\* status unassigned and the return statement raises UnboundLocalError.  On
\* a Window without traces bool_array is one-dimensional and empty: all() is
\* True, and the other three modes raise inside numpy and pandas.
check_windowing_status_mode(w, mode) ==
    LET full == check_windowing_status(w)
        row(i) == /\ full.status[i].starttime
                  /\ full.status[i].sampling_rate
                  /\ full.status[i].npts
                  /\ full.status[i].mask_free
        n == Len(w.traces)
    IN  IF full.err # "ok" THEN [status |-> <<>>, err |-> full.err]
        ELSE IF mode \notin StatusModes
        THEN [status |-> <<>>, err |-> "UnboundLocalError"]
        ELSE IF mode = "summary"
        THEN [status |-> <<[key |-> <<"*">>, attr |-> "all",
                            val |-> \A i \in 1..n : row(i)]>>,
              err |-> "ok"]
        ELSE IF n = 0
        THEN [status |-> <<>>,
              err |-> CASE mode = "trace" -> "AxisError"
                        [] mode = "attribute" -> "TypeError"
                        [] OTHER -> "ValueError"]
        ELSE IF mode = "trace"
        THEN [status |-> [i \in 1..n |->
                            [key |-> w.traces[i].key, attr |-> "all",
                             val |-> row(i)]],
              err |-> "ok"]
        ELSE IF mode = "attribute"
        THEN [status |-> [a \in 1..Len(StatusAttrs) |->
                            [key |-> <<"*">>, attr |-> StatusAttrs[a],
                             val |-> \A i \in 1..n :
                                       full.status[i][StatusAttrs[a]]]],
              err |-> "ok"]
        ELSE [status |-> [j \in 1..(n * Len(StatusAttrs)) |->
                            LET i == ((j - 1) \div Len(StatusAttrs)) + 1
                                a == ((j - 1) % Len(StatusAttrs)) + 1
                            IN  [key |-> w.traces[i].key, attr |-> StatusAttrs[a],
                                 val |-> full.status[i][StatusAttrs[a]]]],
              err |-> "ok"]

\* The modes asked for: the four of line 519, 'channel' of the definition
\* of line 217, and a mode neither definition has
ModeArgs == StatusModes \cup {"channel", "brief"}

\* win.check_windowing_status(mode=mode)
CheckWindowingStatus ==
    \E mode \in ModeArgs :
      LET r == check_windowing_status_mode(win, mode) IN
        /\ wret' = r.status
        /\ werr' = r.err
        /\ wop' = [name |-> "check_windowing_status", mode |-> mode]
        /\ UNCHANGED win
        /\ UNCHANGED <<pulseVars, bufVars, tubeVars, drvVars>>

NextSts ==
    \/ CheckWindowingStatus

(***************************************************************************)
(* Selection and extraction (dictstream.py): fnselect, fnpop and the       *)
(* traces as Python objects.  A trace here has the field oid, the identity *)
(* of the object: two entries with the same oid are one object, copy()     *)
(* makes an object with an oid no buffer holds, and a change made to an    *)
(* object shows in every entry that holds it.                              *)
(***************************************************************************)
StationB == <<"B">>

\* A trace of station sta and channel chan that is the object oid
MkSelTrace(sta, chan, oid) ==
    [network |-> Network, station |-> sta, location |-> <<>>,
     channel |-> chan, model |-> DefaultModel, weight |-> DefaultWeight,
     sampling_rate |-> 1, starttime |-> 0,
     data |-> [i \in 1..TraceNpts |-> 1],
     fold |-> [i \in 1..TraceNpts |-> 1],
     oid |-> oid]

\* The objects of a buffer
Oids(b) == {b.traces[i].tr.oid : i \in 1..Len(b.traces)}

\* MLTrace.copy(): the same trace as an object that none of used is
copy(tr, used) ==
    [tr EXCEPT !.oid = CHOOSE o \in 1..(Cardinality(used) + 1) :
                         o \notin used]

\* The entries of b that hold an object of from show that object as from
\* holds it
Sync(b, from) ==
    [b EXCEPT !.traces =
       [i \in 1..Len(b.traces) |->
          IF \E j \in 1..Len(from.traces) :
               from.traces[j].tr.oid = b.traces[i].tr.oid
          THEN [b.traces[i] EXCEPT !.tr =
                  from.traces[CHOOSE j \in 1..Len(from.traces) :
                     from.traces[j].tr.oid = b.traces[i].tr.oid].tr]
          ELSE b.traces[i]]]

RECURSIVE SelectInto(_, _, _, _, _)
\* The loop of fnselect: out.extend(_tr, key_attr) for each match, _tr the
\* trace of the source or a copy of it; a trace merged into an object that
\* the source holds changes it there too
SelectInto(src, out, matches, key_attr, ascopy) ==
    IF Len(matches) = 0 THEN [src |-> src, out |-> out, err |-> "ok"]
    ELSE LET m == Head(matches)
             tr0 == DictGet(src.traces, m)
             tr == IF ascopy THEN copy(tr0, Oids(src) \cup Oids(out)) ELSE tr0
         IN  CHOOSE v \in
               {IF r.err # "ok"
                THEN [src |-> Sync(src, r.b), out |-> r.b, err |-> r.err]
                ELSE SelectInto(Sync(src, r.b), r.b, Tail(matches), key_attr,
                                ascopy) :
                  r \in {extend(out, <<tr>>, key_attr)}} : TRUE

\* DictStream.fnselect: the source after the call, the buffer returned and
\* the exception raised
fnselect(b, fnstr, key_attr, ascopy) ==
    LET matches == FnFilter(DictKeys(b.traces), fnstr)
        out == NewDictStream(b.stats, b.default_key_attr).b
        r == SelectInto(b, out, matches, key_attr, ascopy)
    IN  IF r.err # "ok" THEN r
        ELSE [src |-> r.src,
              out |-> [r.out EXCEPT !.stats.common_id =
                                      get_common_id(r.out.traces)],
              err |-> "ok"]

RECURSIVE IterMatches(_, _)
\* matches += fnmatch.filter(self.traces.keys(), _e) for _e in iterable: a
\* key that two patterns match is listed twice
IterMatches(keys, iterable) ==
    IF Len(iterable) = 0 THEN <<>>
    ELSE FnFilter(keys, Head(iterable)) \o IterMatches(keys, Tail(iterable))

\* DictStream.isin
isin(b, iterable, key_attr, ascopy) ==
    LET matches == IterMatches(DictKeys(b.traces), iterable)
        out == NewDictStream(b.stats, b.default_key_attr).b
    IN  CHOOSE v \in
          {IF r.err # "ok" THEN r
           ELSE [src |-> r.src,
                 out |-> [r.out EXCEPT !.stats.common_id =
                                         get_common_id(r.out.traces)],
                 err |-> "ok"] :
             r \in {SelectInto(b, out, matches, key_attr, ascopy)}} : TRUE

\* DictStream.exclude
exclude(b, iterable, key_attr, ascopy) ==
    LET matches == IterMatches(DictKeys(b.traces), iterable)
        kept == SelectSeq(DictKeys(b.traces),
                          LAMBDA k : \A i \in 1..Len(matches) : matches[i] # k)
        out == NewDictStream(b.stats, b.default_key_attr).b
    IN  CHOOSE v \in
          {IF r.err # "ok" THEN r
           ELSE [src |-> r.src,
                 out |-> [r.out EXCEPT !.stats.common_id =
                                         get_common_id(r.out.traces)],
                 err |-> "ok"] :
             r \in {SelectInto(b, out, kept, key_attr, ascopy)}} : TRUE

\* The traces the source buffer is made of: channels HZ and HN of station
\* A and channel HZ of station B, three objects
SelUniverse ==
    <<MkSelTrace(Station, ChanZ, 1), MkSelTrace(Station, ChanN, 2),
      MkSelTrace(StationB, ChanZ, 3)>>

\* The orders in which some or all of them are inserted
SelOrders ==
    {s \in UNION {[1..n -> 1..Len(SelUniverse)] : n \in 0..Len(SelUniverse)} :
       \A i, j \in DOMAIN s : i # j => s[i] # s[j]}

\* Shell-style patterns: everything, channel codes ending in Z, the
\* channels of station A, channel HZ of any one-character station
SelPatterns ==
    {<<"*">>, <<"*", "Z">>, <<"U", ".", "A", ".", ".", "H", "?">>,
     <<"U", ".", "?", ".", ".", "H", "Z">>}

InitSel ==
    /\ \E s \in SelOrders :
         ds = extend(NewDictStream(DefaultStats, "id").b,
                     [i \in DOMAIN s |-> SelUniverse[s[i]]], "None").b
    /\ ret = NoBuffer
    /\ bop = [name |-> "none", key_attr |-> "None"]
    /\ berr = "ok"
    /\ PulseIdle
    /\ WinIdle
    /\ TubeIdle
    /\ DrvIdle

\* Selections are made from buffers whose traces were merged MaxSelFold
\* times at most
MaxSelFold == 1

SelBounded ==
    \A i \in 1..Len(ds.traces) :
      \A k \in DOMAIN ds.traces[i].tr.fold :
        ds.traces[i].tr.fold[k] <= MaxSelFold

\* The key_attr arguments of the selections: the default, and the site
\* code, under which the two channels of a station have one key
SelKeyAttrs == {"None", "site"}

\* The lists of patterns isin and exclude are called with
SelIterables == {<<<<"*", "Z">>>>, <<<<"*">>, <<"*", "Z">>>>}

\* ds.fnselect(fnstr, ascopy=ascopy); nothing is returned when it raises
FnSelect ==
    \E fnstr \in SelPatterns, ascopy \in BOOLEAN :
      \E r \in {fnselect(ds, fnstr, "None", ascopy)} :
        /\ SelBounded
        /\ ds' = r.src
        /\ ret' = IF r.err = "ok" THEN r.out ELSE NoBuffer
        /\ berr' = r.err
        /\ bop' = [name |-> "fnselect", key_attr |-> "None",
                   fnstr |-> fnstr, ascopy |-> ascopy]
        /\ UNCHANGED <<pulseVars, winVars, tubeVars, drvVars>>

\* ds.fnpop(fnstr)
SelFnPop ==
    \E fnstr \in SelPatterns :
      \E r \in {fnpop(ds, fnstr, "None")} :
        /\ SelBounded
        /\ ds' = r.src
        /\ ret' = IF r.err = "ok" THEN r.out ELSE NoBuffer
        /\ berr' = r.err
        /\ bop' = [name |-> "fnpop", key_attr |-> "None", fnstr |-> fnstr]
        /\ UNCHANGED <<pulseVars, winVars, tubeVars, drvVars>>

\* ds[0] = trace, trace a new object of channel HN of station A:
\* DictStream.__setitem__ with an int index keeps the key of the entry
SelSetItem ==
    /\ Len(ds.traces) > 0
    /\ \A o \in Oids(ds) : o <= Len(SelUniverse)
    /\ ds' = [ds EXCEPT !.traces[1].tr =
                copy(MkSelTrace(Station, ChanN, 0), Oids(ds) \cup Oids(ret)
                                                     \cup 1..Len(SelUniverse))]
    /\ ret' = ret
    /\ berr' = "ok"
    /\ bop' = [name |-> "setitem", key_attr |-> "None"]
    /\ UNCHANGED <<pulseVars, winVars, tubeVars, drvVars>>

\* The object o after b[i].to_zero(method='both') was called on it
Zeroed(b, o) ==
    [b EXCEPT !.traces =
       [i \in 1..Len(b.traces) |->
          IF b.traces[i].tr.oid = o
          THEN [b.traces[i] EXCEPT !.tr = to_zero(b.traces[i].tr, "both")]
          ELSE b.traces[i]]]

\* buffer[0].to_zero(method='both'), buffer the source or the buffer that
\* the last call returned: the first trace of that buffer is changed in
\* place
MutateTrace ==
    \E through \in {"source", "returned"} :
      LET b == IF through = "source" THEN ds ELSE ret IN
        /\ Len(b.traces) > 0
        /\ LET o == b.traces[1].tr.oid IN
             /\ ds' = Zeroed(ds, o)
             /\ ret' = Zeroed(ret, o)
             /\ bop' = [name |-> "mutate", key_attr |-> "None",
                        through |-> through, oid |-> o]
        /\ berr' = "ok"
        /\ UNCHANGED <<pulseVars, winVars, tubeVars, drvVars>>

\* ds.fnselect(fnstr, key_attr='site', ascopy=ascopy): the buffer returned
\* is keyed by site code
FnSelectSite ==
    \E fnstr \in SelPatterns, ascopy \in BOOLEAN :
      \E r \in {fnselect(ds, fnstr, "site", ascopy)} :
        /\ SelBounded
        /\ ds' = r.src
        /\ ret' = IF r.err = "ok" THEN r.out ELSE NoBuffer
        /\ berr' = r.err
        /\ bop' = [name |-> "fnselect_site", key_attr |-> "site",
                   fnstr |-> fnstr, ascopy |-> ascopy]
        /\ UNCHANGED <<pulseVars, winVars, tubeVars, drvVars>>

\* ds.isin(iterable, key_attr=ka, ascopy=ascopy)
IsIn ==
    \E iterable \in SelIterables, ka \in SelKeyAttrs, ascopy \in BOOLEAN :
      \E r \in {isin(ds, iterable, ka, ascopy)} :
        /\ SelBounded
        /\ ds' = r.src
        /\ ret' = IF r.err = "ok" THEN r.out ELSE NoBuffer
        /\ berr' = r.err
        /\ bop' = [name |-> "isin", key_attr |-> ka,
                   iterable |-> iterable, ascopy |-> ascopy]
        /\ UNCHANGED <<pulseVars, winVars, tubeVars, drvVars>>

\* ds.exclude(iterable, key_attr=ka, ascopy=ascopy)
Exclude ==
    \E iterable \in SelIterables, ka \in SelKeyAttrs, ascopy \in BOOLEAN :
      \E r \in {exclude(ds, iterable, ka, ascopy)} :
        /\ SelBounded
        /\ ds' = r.src
        /\ ret' = IF r.err = "ok" THEN r.out ELSE NoBuffer
        /\ berr' = r.err
        /\ bop' = [name |-> "exclude", key_attr |-> ka,
                   iterable |-> iterable, ascopy |-> ascopy]
        /\ UNCHANGED <<pulseVars, winVars, tubeVars, drvVars>>

NextSel ==
    \/ FnSelect
    \/ FnSelectSite
    \/ IsIn
    \/ Exclude
    \/ SelFnPop
    \/ SelSetItem
    \/ MutateTrace

(***************************************************************************)
(* DictStream.split_on_key (dictstream.py 744-770).  The mapping returned  *)
(* is a sequence of entries [key, b], b the buffer of that key.            *)
(***************************************************************************)
\* DictStream.__iter__: the traces of a sequence of entries, in its order
Segments(es) == [i \in 1..Len(es) |-> es[i].tr]

\* DictStream.__add__ as split_on_key calls it on the buffer of a key that
\* is there already: without key_attr among the options it calls
\* options.upate, which a dict does not have; with it, the list handed to
\* the constructor starts with the keys of self.traces, which are strings
\* and not traces, and extend raises TypeError
dictstream_add(kw) == IF kw THEN "TypeError" ELSE "AttributeError"

RECURSIVE SplitInto(_, _, _, _)
\* The loop of split_on_key over the traces of the source
SplitInto(trs, out, key, kw) ==
    IF Len(trs) = 0 THEN [out |-> out, err |-> "ok"]
    ELSE LET tr == Head(trs)
             k == key_opts(tr, key)
             has == \E i \in 1..Len(out) : out[i].key = k
         IN  IF ~has
             THEN SplitInto(Tail(trs),
                    Append(out,
                      [key |-> k,
                       b |-> extend(NewDictStream(DefaultStats, "id").b,
                                    <<tr>>, "id").b]),
                    key, kw)
             ELSE IF dictstream_add(kw) # "ok"
             THEN [out |-> out, err |-> dictstream_add(kw)]
             ELSE SplitInto(Tail(trs),
                    [i \in 1..Len(out) |->
                       IF out[i].key = k
                       THEN [out[i] EXCEPT !.b = extend(out[i].b, <<tr>>,
                                                        "None").b]
                       ELSE out[i]],
                    key, kw)

\* DictStream.split_on_key(key, **options), kw: key_attr is among options
split_on_key(b, key, kw) ==
    IF key \notin attr_keys THEN [out |-> <<>>, err |-> "ValueError"]
    ELSE SplitInto(Segments(b.traces), <<>>, key, kw)

\* The keys split_on_key is called with: the schemes and one that is none
SplitKeys == attr_keys \cup {"channel"}

InitSplit ==
    /\ \E s \in SelOrders :
         ds = extend(NewDictStream(DefaultStats, "id").b,
                     [i \in DOMAIN s |-> SelUniverse[s[i]]], "None").b
    /\ ret = <<>>
    /\ bop = [name |-> "none", key_attr |-> "None"]
    /\ berr = "ok"
    /\ PulseIdle
    /\ WinIdle
    /\ TubeIdle
    /\ DrvIdle

\* ds.split_on_key(key) and ds.split_on_key(key, key_attr='id'); nothing is
\* returned when it raises
SplitOnKey ==
    \E key \in SplitKeys, kw \in BOOLEAN :
      LET r == split_on_key(ds, key, kw) IN
        /\ ds' = ds
        /\ ret' = IF r.err = "ok" THEN r.out ELSE <<>>
        /\ berr' = r.err
        /\ bop' = [name |-> "split_on_key", key_attr |-> key, kw |-> kw]
        /\ UNCHANGED <<pulseVars, winVars, tubeVars, drvVars>>

NextSplit ==
    \/ SplitOnKey

(***************************************************************************)
(* The common id of a buffer (dictstream.py 651-737), on buffers whose     *)
(* traces differ in station, channel, model and weight.                    *)
(***************************************************************************)
\* DictStream.get_common_id_elements: the six tokens in the order of the
\* fields
get_common_id_elements(d) ==
    [f \in 1..6 |-> CommonElement(d, IdFields[f])]

\* The buffers hold MaxCidTraces traces at most
MaxCidTraces == 2

CidStations == {<<"A">>, <<"B">>, <<"A", "B">>}
CidChannels == {<<"H", "Z">>, <<"H", "N">>, <<"Z">>}
CidModels == {<<>>, <<"M">>}

\* The traces the buffers are made of; a trace of model M has weight W
CidTraces ==
    {[MkTrace(s, c, 1, 0) EXCEPT !.model = m,
                                 !.weight = IF m = <<>> THEN <<>> ELSE <<"W">>] :
       s \in CidStations, c \in CidChannels, m \in CidModels}

\* Lists of different traces
CidLists ==
    {l \in UNION {[1..n -> CidTraces] : n \in 0..MaxCidTraces} :
       \A i, j \in DOMAIN l : i # j => l[i] # l[j]}

InitCid ==
    /\ \E l \in CidLists :
         ds = extend(NewDictStream(DefaultStats, "id").b, l, "None").b
    /\ ret = [elements |-> <<>>, common_id |-> <<>>]
    /\ bop = [name |-> "none", key_attr |-> "None"]
    /\ berr = "ok"
    /\ PulseIdle
    /\ WinIdle
    /\ TubeIdle
    /\ DrvIdle

\* ds.get_common_id_elements() and ds.get_common_id()
GetCommonId ==
    /\ ret' = [elements |-> get_common_id_elements(ds.traces),
               common_id |-> get_common_id(ds.traces)]
    /\ ds' = ds
    /\ berr' = "ok"
    /\ bop' = [name |-> "get_common_id", key_attr |-> "None"]
    /\ UNCHANGED <<pulseVars, winVars, tubeVars, drvVars>>

NextCid ==
    \/ GetCommonId

(***************************************************************************)
(* TubeWyrm and CanWyrm (wyrm/core/coordinate.py) over Wyrms whose pulse   *)
(* is Wyrm.pulse (ayahos/wyrms/wyrm.py 94-139).  A value handed to or      *)
(* returned by a pulse is a record [kind, val, nproc]: a deque (kind       *)
(* "deque", its content in val), the tuple (output, nproc) that Wyrm.pulse *)
(* returns (kind "tuple", the content of output in val), or nothing (kind  *)
(* "None").  The sleep between two Wyrms changes no state.                 *)
(***************************************************************************)
MaxStages == 2
MaxTubeInput == 2
MaxTubeOutput == 3

Deque(content) == [kind |-> "deque", val |-> content, nproc |-> 0]

Nothing == [kind |-> "None", val |-> <<>>, nproc |-> 0]

RECURSIVE PulseLoop(_, _, _, _, _, _)
\* The for loop of Wyrm.pulse from iteration iterno on: the Wyrm and the
\* content of the input after it, nproc, and "raised" if _unit_process
\* raised
PulseLoop(w, kind, val, measure, i, n) ==
    IF i = w.max_pulse_size \/ ~run_this_iteration(kind, val, measure, i)
    THEN [w |-> w, val |-> val, nproc |-> n, err |-> "ok"]
    ELSE LET r == unit_process(w.st, Head(val)) IN
           IF ~r.ok
           THEN [w |-> w, val |-> Tail(val), nproc |-> n, err |-> "raised"]
           ELSE LET w2 == [w EXCEPT !.output =
                                      capture_unit_output(@, r.val)]
                IN  IF ~run_next_iteration(w.st, r.val)
                    THEN [w |-> w2, val |-> Tail(val), nproc |-> n + 1,
                          err |-> "ok"]
                    ELSE PulseLoop(w2, kind, Tail(val), measure, i + 1, n + 1)

\* Wyrm.pulse(input) as a whole: the Wyrm and the content of input after
\* it, and the tuple (output, nproc) it returns.  The length of a tuple,
\* which _measure_input takes, is 2
wyrm_pulse(w, inp) ==
    LET measure == IF inp.kind = "deque" THEN Len(inp.val) ELSE 2
        r == PulseLoop(w, inp.kind, inp.val, measure, 0, 0)
    IN  [w |-> r.w, val |-> r.val, err |-> r.err,
         ret |-> IF r.err = "ok"
                 THEN [kind |-> "tuple", val |-> r.w.output, nproc |-> r.nproc]
                 ELSE Nothing]

RECURSIVE TubeLoop(_, _, _, _, _)
\* The loop of TubeWyrm.pulse from Wyrm i on: x = _wyrm.pulse(x).  xc is
\* the content of the deque of the caller, which the first Wyrm is handed
TubeLoop(ws, i, x, xc, calls) ==
    IF i > Len(ws)
    THEN [ws |-> ws, x |-> xc, y |-> x, calls |-> calls, err |-> "ok"]
    ELSE LET r == wyrm_pulse(ws[i], x)
             ws2 == [ws EXCEPT ![i] = r.w]
             xc2 == IF i = 1 THEN r.val ELSE xc
             calls2 == Append(calls, [stage |-> i, received |-> x,
                                      returned |-> r.ret])
         IN  IF r.err # "ok"
             THEN [ws |-> ws2, x |-> xc2, y |-> Nothing, calls |-> calls2,
                   err |-> r.err]
             ELSE TubeLoop(ws2, i + 1, r.ret, xc2, calls2)

\* TubeWyrm.pulse(x): it reads self.wyrm_list, which __init__ does not make
tube_pulse(t, x) ==
    IF "wyrm_list" \notin t.attrs
    THEN [ws |-> t.wyrm_dict, x |-> x, y |-> Nothing, calls |-> <<>>,
          err |-> "AttributeError"]
    ELSE TubeLoop(t.wyrm_dict, 1, Deque(x), x, <<>>)

RECURSIVE CanLoop(_, _, _, _, _)
\* The loop of CanWyrm.pulse from Wyrm i on: _y = _wyrm.pulse(x) and
\* y.appendleft(_y); every Wyrm is handed the deque x of the caller
CanLoop(ws, i, xc, y, calls) ==
    IF i > Len(ws)
    THEN [ws |-> ws, x |-> xc, y |-> Deque(y), calls |-> calls, err |-> "ok"]
    ELSE LET r == wyrm_pulse(ws[i], Deque(xc))
             ws2 == [ws EXCEPT ![i] = r.w]
             calls2 == Append(calls, [stage |-> i, received |-> Deque(xc),
                                      returned |-> r.ret])
         IN  IF r.err # "ok"
             THEN [ws |-> ws2, x |-> r.val, y |-> Nothing, calls |-> calls2,
                   err |-> r.err]
             ELSE CanLoop(ws2, i + 1, r.val, <<r.ret>> \o y, calls2)

\* The attributes CanWyrm.pulse reads and __init__ does not make
CanAttrs == {"output_type", "wyrm_queue", "concat_method"}

\* CanWyrm.pulse(x), the second definition of the class body (328-351)
can_pulse(t, x) ==
    IF ~(CanAttrs \subseteq t.attrs)
    THEN [ws |-> t.wyrm_dict, x |-> x, y |-> Nothing, calls |-> <<>>,
          err |-> "AttributeError"]
    ELSE CanLoop(t.wyrm_dict, 1, x, <<>>, <<>>)

\* The Wyrms of a wyrm_dict: the base class, a subclass that processes
\* every unit and one that raises on unit 2
TubeStages ==
    {s \in Stages : s.haltOn = {} /\ s.failOn \in {{}, {2}}}

TubeWyrms ==
    [st : TubeStages, max_pulse_size : 1..2, output : {<<>>}]

\* The deques pulse is called with
TubeInputs == UNION {[1..n -> Units] : n \in 0..MaxTubeInput}

InitTube ==
    /\ \E c \in {"TubeWyrm", "CanWyrm"} :
         \E ws \in UNION {[1..n -> TubeWyrms] : n \in 1..MaxStages} :
           tube = [class |-> c, wyrm_dict |-> ws, attrs |-> {}]
    /\ tx = <<>>
    /\ ty = Nothing
    /\ top = [name |-> "none"]
    /\ terr = "ok"
    /\ PulseIdle
    /\ BufIdle
    /\ WinIdle
    /\ DrvIdle

\* The caller assigns the attributes the pulse of the class reads:
\* wyrm_list = list(wyrm_dict.values()), or wyrm_queue the same list,
\* output_type = deque and concat_method = 'appendleft'
AssignAttributes ==
    /\ tube.attrs = {}
    /\ tube' = [tube EXCEPT !.attrs = IF tube.class = "TubeWyrm"
                                      THEN {"wyrm_list"} ELSE CanAttrs]
    /\ top' = [name |-> "assign"]
    /\ terr' = "ok"
    /\ UNCHANGED <<tx, ty>>
    /\ UNCHANGED <<pulseVars, bufVars, winVars, drvVars>>

\* The outputs of the Wyrms stay within the bound of the model
TubeBounded ==
    \A i \in 1..Len(tube.wyrm_dict) :
      Len(tube.wyrm_dict[i].output) + tube.wyrm_dict[i].max_pulse_size
        <= MaxTubeOutput

\* y = tube.pulse(x), tube a TubeWyrm
TubePulse ==
    /\ tube.class = "TubeWyrm"
    /\ TubeBounded
    /\ \E x \in TubeInputs :
         LET r == tube_pulse(tube, x) IN
           /\ tube' = [tube EXCEPT !.wyrm_dict = r.ws]
           /\ tx' = r.x
           /\ ty' = r.y
           /\ terr' = r.err
           /\ top' = [name |-> "pulse", x |-> x, calls |-> r.calls]
    /\ UNCHANGED <<pulseVars, bufVars, winVars, drvVars>>

\* y = tube.pulse(x), tube a CanWyrm
CanPulse ==
    /\ tube.class = "CanWyrm"
    /\ TubeBounded
    /\ \E x \in TubeInputs :
         LET r == can_pulse(tube, x) IN
           /\ tube' = [tube EXCEPT !.wyrm_dict = r.ws]
           /\ tx' = r.x
           /\ ty' = r.y
           /\ terr' = r.err
           /\ top' = [name |-> "pulse", x |-> x, calls |-> r.calls]
    /\ UNCHANGED <<pulseVars, bufVars, winVars, drvVars>>

NextTube ==
    \/ AssignAttributes
    \/ TubePulse
    \/ CanPulse

\* ---------------------------------------------------------------------
\* The driver: PulsedMod_EW (PULSED/module/coordinate.py) and HeartWyrm
\* (wyrm/core/coordinate.py).  run() is the target of a worker thread
\* and is taken one statement at a time; stop() is called by another
\* thread.  dlog is the order in which the module (mod_sta, goodbye),
\* the pipeline (pulse_start, pulse_end) and stop() were reached.
\* ---------------------------------------------------------------------

\* Largest number of pipeline pulses one run() starts in the model
MaxDrvPulses == 3

DrvClasses == {"PulsedMod_EW", "HeartWyrm"}

\* The number of pipeline pulses started so far
NStarted(log) == Cardinality({i \in 1..Len(log) : log[i] = "pulse_start"})

\* The objects as their __init__ leaves them: PulsedMod_EW holds its
\* module, HeartWyrm has module = False until initialize_module();
\* runs = True and the thread is created but not started.
InitDrv ==
    /\ \E c \in DrvClasses :
         driver = [class |-> c,
                   module |-> IF c = "HeartWyrm" THEN "False" ELSE "EWModule"]
    /\ runs = TRUE
    /\ rpc = "idle"
    /\ spc = "idle"
    /\ dlog = <<>>
    /\ derr = "ok"
    /\ PulseIdle
    /\ BufIdle
    /\ WinIdle
    /\ TubeIdle

\* HeartWyrm.initialize_module: self.module = PyEW.EWModule(...)
initialize_module ==
    /\ driver.class = "HeartWyrm"
    /\ driver.module = "False"
    /\ driver' = [driver EXCEPT !.module = "EWModule"]
    /\ UNCHANGED <<runs, rpc, spc, dlog, derr>>
    /\ UNCHANGED <<pulseVars, bufVars, winVars, tubeVars>>

\* start(): the thread starts and enters run()
drv_start ==
    /\ rpc = "idle"
    /\ rpc' = "while"
    /\ UNCHANGED <<driver, runs, spc, dlog, derr>>
    /\ UNCHANGED <<pulseVars, bufVars, winVars, tubeVars>>

\* stop(): self.runs = False
drv_stop ==
    /\ spc = "idle"
    /\ runs' = FALSE
    /\ spc' = "returned"
    /\ dlog' = Append(dlog, "stop")
    /\ UNCHANGED <<driver, rpc, derr>>
    /\ UNCHANGED <<pulseVars, bufVars, winVars, tubeVars>>

run_while_unread ==
    /\ rpc = "while"
    /\ NStarted(dlog) < MaxDrvPulses
    /\ rpc' = "mod_sta"
    /\ UNCHANGED <<driver, runs, spc, dlog, derr>>
    /\ UNCHANGED <<pulseVars, bufVars, winVars, tubeVars>>

\* while self.runs:
run_while ==
    /\ rpc = "while"
    /\ runs => NStarted(dlog) < MaxDrvPulses
    /\ rpc' = IF runs THEN "mod_sta" ELSE "goodbye"
    /\ UNCHANGED <<driver, runs, spc, dlog, derr>>
    /\ UNCHANGED <<pulseVars, bufVars, winVars, tubeVars>>

\* if self.module.mod_sta() is False: break
\* (module is the bool False before initialize_module: AttributeError)
run_mod_sta ==
    /\ rpc = "mod_sta"
    /\ IF driver.module = "False"
       THEN /\ rpc' = "raised"
            /\ derr' = "AttributeError"
            /\ dlog' = dlog
       ELSE \E status \in BOOLEAN :
            /\ rpc' = IF status THEN "sleep" ELSE "goodbye"
            /\ dlog' = Append(dlog, IF status THEN "mod_sta" ELSE "mod_sta_false")
            /\ derr' = derr
    /\ UNCHANGED <<driver, runs, spc>>
    /\ UNCHANGED <<pulseVars, bufVars, winVars, tubeVars>>

\* time.sleep(0.001) / sleep(self.wait_sec)
run_sleep ==
    /\ rpc = "sleep"
    /\ rpc' = "pulse"
    /\ UNCHANGED <<driver, runs, spc, dlog, derr>>
    /\ UNCHANGED <<pulseVars, bufVars, winVars, tubeVars>>

\* PulsedMod_EW: _ = super().pulse(input), the pulse of the sequence
\* HeartWyrm: self.pulse() without the argument x of TubeWyrm.pulse(self, x)
run_pulse_call ==
    /\ rpc = "pulse"
    /\ IF driver.class = "HeartWyrm"
       THEN /\ rpc' = "raised"
            /\ derr' = "TypeError"
            /\ dlog' = dlog
       ELSE /\ rpc' = "pulsing"
            /\ derr' = derr
            /\ dlog' = Append(dlog, "pulse_start")
    /\ UNCHANGED <<driver, runs, spc>>
    /\ UNCHANGED <<pulseVars, bufVars, winVars, tubeVars>>

\* The pulse of the sequence returns and the loop goes back to its test
run_pulse_return ==
    /\ rpc = "pulsing"
    /\ rpc' = "while"
    /\ dlog' = Append(dlog, "pulse_end")
    /\ UNCHANGED <<driver, runs, spc, derr>>
    /\ UNCHANGED <<pulseVars, bufVars, winVars, tubeVars>>

\* self.module.goodbye(), after the loop
run_goodbye ==
    /\ rpc = "goodbye"
    /\ rpc' = "done"
    /\ dlog' = Append(dlog, "goodbye")
    /\ UNCHANGED <<driver, runs, spc, derr>>
    /\ UNCHANGED <<pulseVars, bufVars, winVars, tubeVars>>

\* The steps of the worker thread
run ==
    \/ run_while
    \/ run_mod_sta
    \/ run_sleep
    \/ run_pulse_call
    \/ run_pulse_return
    \/ run_goodbye

NextDrv ==
    \/ initialize_module
    \/ drv_start
    \/ drv_stop
    \/ run

(***************************************************************************)
(* DictStream.__getitem__ with a slice or a list of keys                   *)
(* (dictstream.py 260-304): the sub-buffer is made by                      *)
(* self.__class__(traces=traces).                                          *)
(***************************************************************************)
\* DictStream.__init__(traces, header, key_attr)
DictStreamInit(traces, header, key_attr) ==
    LET d == NewDictStream(header, key_attr)
    IN  IF d.err # "ok" THEN d
        ELSE CHOOSE v \in
               {IF e.err # "ok" THEN e
                ELSE [b |-> [e.b EXCEPT !.stats.common_id =
                                          get_common_id(e.b.traces)],
                      err |-> "ok"] :
                  e \in {extend(d.b, traces, d.b.default_key_attr)}} : TRUE

\* DictStream.__getitem__(slice(lo, hi)):
\* self.__class__(traces=[self.traces[_k] for _k in keyslice])
getitem_slice(b, lo, hi) ==
    LET keyslice == SubSeq(DictKeys(b.traces), lo + 1, hi)
        traces == [i \in 1..Len(keyslice) |-> DictGet(b.traces, keyslice[i])]
    IN  DictStreamInit(traces, DefaultStats, "id")

\* DictStream.__getitem__(index), index a list of keys
getitem_list(b, index) ==
    IF \A i \in 1..Len(index) : DictHas(b.traces, index[i])
    THEN DictStreamInit([i \in 1..Len(index) |-> DictGet(b.traces, index[i])],
                        DefaultStats, "id")
    ELSE [b |-> NoBuffer, err |-> "KeyError"]

\* The key schemes the indexed buffers are configured with
SubKeyAttrs == {"id", "site"}

\* The buffers indexed: DictStream(traces, key_attr=ka) of some of the
\* three traces, in any order, when the construction does not raise
InitSub ==
    /\ \E ka \in SubKeyAttrs, s \in SelOrders :
         \E r \in {DictStreamInit([i \in DOMAIN s |-> SelUniverse[s[i]]],
                                  DefaultStats, ka)} :
           /\ r.err = "ok"
           /\ ds = r.b
    /\ ret = NoBuffer
    /\ bop = [name |-> "none", key_attr |-> "None"]
    /\ berr = "ok"
    /\ PulseIdle
    /\ WinIdle
    /\ TubeIdle
    /\ DrvIdle

\* The lists of keys: keys the buffer holds, each once, in its order, and
\* a list with a key it does not hold
SubLists(b) ==
    {SelectSeq(DictKeys(b.traces), LAMBDA k : k \in S) :
       S \in SUBSET Range(DictKeys(b.traces))} \cup {<<<<"X">>>>}

\* ds[lo:hi]
GetItemSlice ==
    \E lo \in 0..Len(ds.traces) :
      \E hi \in lo..Len(ds.traces) :
        \E r \in {getitem_slice(ds, lo, hi)} :
          /\ ret' = r.b
          /\ berr' = r.err
          /\ bop' = [name |-> "getitem_slice", key_attr |-> "None",
                     lo |-> lo, hi |-> hi]
          /\ ds' = ds
          /\ UNCHANGED <<pulseVars, winVars, tubeVars, drvVars>>

\* ds[index], index a list of keys
GetItemList ==
    \E index \in SubLists(ds) :
      \E r \in {getitem_list(ds, index)} :
        /\ ret' = r.b
        /\ berr' = r.err
        /\ bop' = [name |-> "getitem_list", key_attr |-> "None",
                   index |-> index]
        /\ ds' = ds
        /\ UNCHANGED <<pulseVars, winVars, tubeVars, drvVars>>

NextSub ==
    \/ GetItemSlice
    \/ GetItemList

SpecPulse == InitPulse /\ [][NextPulse]_vars

SpecBuf == InitBuf /\ [][NextBuf]_vars

SpecWin == InitWin /\ [][NextWin]_vars

SpecChk == InitChk /\ [][NextChk]_vars

SpecExp == InitExp /\ [][NextExp]_vars

SpecSts == InitExp /\ [][NextSts]_vars

SpecSel == InitSel /\ [][NextSel]_vars

SpecSplit == InitSplit /\ [][NextSplit]_vars

SpecCid == InitCid /\ [][NextCid]_vars

SpecTube == InitTube /\ [][NextTube]_vars

SpecDrv == InitDrv /\ [][NextDrv]_vars

SpecSub == InitSub /\ [][NextSub]_vars

\* A started worker thread is scheduled as long as run() has a statement
\* to execute, and the pulse it called returns
SpecDrvFair == InitDrv /\ [][NextDrv]_vars /\ WF_vars(run)

(***************************************************************************)
(* Claims about the pulse loop.                                            *)
(***************************************************************************)
\* Outputs a pulse appends for the first k units of its input.
PulseOutputs(k) == [j \in 1..k |-> UnitTransform(in0[j])]

\* Does the unit transformation of the stage fail on unit u?
UnitFails(u) == ~stage.override \/ u \in stage.failOn

\* Length of the deque handed to the running pulse (0 when it got None).
PulseInputLen == IF inputKind = "deque" THEN Len(in0) ELSE 0

C2_PulseHalting ==
    pc = "returned" =>
      LET lim == Min2(max_pulse_size, PulseInputLen)
          H == {j \in 1..lim : UnitTransform(in0[j]) \in stage.haltOn}
          n == IF H # {} THEN CHOOSE h \in H : \A g \in H : h <= g ELSE lim
      IN  /\ nremoved = n
          /\ nproc = n
          /\ output = out0 \o PulseOutputs(n)
          /\ input = SubSeq(in0, n + 1, Len(in0))
          /\ stop = IF H # {} THEN "run_next"
                    ELSE IF PulseInputLen < max_pulse_size THEN "run_this"
                    ELSE "bound"

C2_Witness ==
    /\ pc = "returned"
    /\ stop = "run_next"
    /\ nproc >= 2
    /\ nproc < max_pulse_size
    /\ Len(input) > 0

\* C3 - A failing unit transformation aborts the pulse: as soon as a unit on
\* which _unit_process fails has been removed, the call has ended with that
\* failure (it is never caught: no pulse goes on or returns normally past a
\* failing unit), and the output holds exactly the outputs of the units
\* before the failing one.
C3_FailureAborts ==
    /\ pc # "idle" =>
         \A j \in 1..nremoved :
           UnitFails(in0[j]) => (pc = "raised" /\ j = nremoved)
    /\ pc = "raised" =>
         /\ UnitFails(in0[nremoved])
         /\ nproc = nremoved - 1
         /\ output = out0 \o PulseOutputs(nproc)
         /\ input = SubSeq(in0, nremoved + 1, Len(in0))

C3_Witness ==
    /\ pc = "raised"
    /\ stage.override
    /\ nproc >= 1
    /\ Len(input) > 0
    /\ max_pulse_size > nremoved

(***************************************************************************)
(* Claims on the keyed trace buffer (DictStream), checked under SpecBuf.   *)
(***************************************************************************)
RECURSIVE SumSeq(_)
SumSeq(s) == IF Len(s) = 0 THEN 0 ELSE Head(s) + SumSeq(Tail(s))

\* Number of (sample, observation) pairs held by a buffer
TotalFold(b) == SumSeq([i \in 1..Len(b.traces) |-> SumSeq(b.traces[i].tr.fold)])

\* Every sample of trace old is still in trace new, with its data and at
\* least its fold, under the same identity and sampling rate.
Contains(new, old) ==
    /\ get_id(new) = get_id(old)
    /\ new.sampling_rate = old.sampling_rate
    /\ \A j \in 1..Len(old.fold) :
         LET t == old.starttime + (j - 1) * Delta(old)
         IN  /\ Covers(new, t)
             /\ new.fold[SampleAt(new, t)] >= old.fold[j]
             /\ (old.fold[j] > 0 => new.data[SampleAt(new, t)] = old.data[j])

NoDupKeys(d) == \A i, j \in 1..Len(d) : d[i].key = d[j].key => i = j

\* The key scheme a call with argument key_attr uses on buffer b
SchemeUsed(b, key_attr) ==
    IF key_attr = "None" THEN b.default_key_attr ELSE key_attr

\* C4: merge-on-insert.  An extend call keeps every key of the buffer at its
\* position and merges into the Segment held there (each sample held before
\* is still held, and a call that adds no key adds the inserted samples to
\* the held ones); a key that is new holds a Segment whose key under the
\* scheme of the call is that key; no key occurs twice.
C4_MergeOnInsert ==
    [][bop'.name = "extend" =>
         /\ Len(ds'.traces) >= Len(ds.traces)
         /\ \A i \in 1..Len(ds.traces) :
              /\ ds'.traces[i].key = ds.traces[i].key
              /\ Contains(ds'.traces[i].tr, ds.traces[i].tr)
         /\ (berr' = "ok" /\ Len(ds'.traces) = Len(ds.traces)
               => TotalFold(ds') > TotalFold(ds))
         /\ \A i \in (Len(ds.traces) + 1)..Len(ds'.traces) :
              ds'.traces[i].key =
                key_opts(ds'.traces[i].tr, SchemeUsed(ds, bop'.key_attr))
         /\ NoDupKeys(ds'.traces)]_vars

\* An extend call has merged a packet into the Segment held under its key.
C4_Witness ==
    /\ bop.name = "extend"
    /\ berr = "ok"
    /\ \E i \in 1..Len(ds.traces) : Len(ds.traces[i].tr.fold) > TraceNpts

\* The keys of buffer b are the keys of its Segments under its default scheme
KeyInvariant(b) ==
    \A i \in 1..Len(b.traces) :
      b.traces[i].key = key_opts(b.traces[i].tr, b.default_key_attr)

\* C5: key invariant.  After any sequence of inserts (with or without an
\* explicit key scheme), assignments by index or key, deletions and
\* extractions, every Segment stored under key K, in the buffer and in an
\* extracted buffer, yields K under the default scheme of its buffer.
C5_KeyInvariant ==
    /\ KeyInvariant(ds)
    /\ KeyInvariant(ret)

\* C6: an extend call that raises SegmentIncompatible leaves the keys, the
\* held Segments and the summary metadata of the buffer as they were.
C6_IncompatibleLeavesUnmodified ==
    [][(bop'.name = "extend" /\ berr' = "SegmentIncompatible") => ds' = ds]_vars

Starts(b) == {b.traces[i].tr.starttime : i \in 1..Len(b.traces)}
Ends(b) == {Endtime(b.traces[i].tr) : i \in 1..Len(b.traces)}
MinOf(S) == CHOOSE x \in S : \A y \in S : x <= y
MaxOf(S) == CHOOSE x \in S : \A y \in S : x >= y

\* C7: summary time range.  While the buffer holds Segments, its
\* min_starttime, max_starttime, min_endtime and max_endtime are the minimum
\* and maximum start and end time of the Segments it holds.
C7_SummaryTimeRange ==
    Len(ds.traces) > 0 =>
      /\ ds.stats.min_starttime = MinOf(Starts(ds))
      /\ ds.stats.max_starttime = MaxOf(Starts(ds))
      /\ ds.stats.min_endtime = MinOf(Ends(ds))
      /\ ds.stats.max_endtime = MaxOf(Ends(ds))

(***************************************************************************)
(* Claims on the Window, checked under SpecWin.                            *)
(***************************************************************************)
\* C8: Window construction.  Window(traces, primary_component) raises
\* MissingPrimaryComponent exactly when no inserted trace has the primary
\* component; in every other case it succeeds.
C8_WindowConstruction ==
    wop.name = "construct" =>
      IF wop.primary \in Range(wop.comps) THEN werr = "ok"
      ELSE werr = "MissingPrimaryComponent"

\* Is component key k the primary of w or one of the secondaries sec?
Listed(w, sec, k) == k = w.primary_component \/ k[1] \in Range(sec)

\* The traces of w held under a key that is not listed
UnlistedTraces(w, sec) ==
    {w.traces[i].tr : i \in {j \in 1..Len(w.traces) :
                               ~Listed(w, sec, w.traces[j].key)}}

PrimaryPasses(w, tol) ==
    /\ DictHas(w.traces, w.primary_component)
    /\ check_fvalid(w, w.primary_component, tol)

\* C9: apply_fill_rule with two distinct secondary components, a supported
\* rule, a tolerance in [0, 1) and a passing primary removes every Segment
\* whose key is not the primary or a secondary, keeps the Segments of the
\* listed keys and returns exactly the removed Segments, however many
\* unlisted components are held.
C9_UnlistedRemovedAndReturned ==
    [][(/\ wop'.name = "apply_fill_rule"
        /\ wop'.rule \in Rules
        /\ wop'.tol = DefaultTolerance
        /\ Len(wop'.sec) = 2 /\ wop'.sec[1] # wop'.sec[2]
        /\ PrimaryPasses(win, wop'.tol))
       =>
       /\ werr' = "ok"
       /\ \A i \in 1..Len(win.traces) :
            Listed(win, wop'.sec, win.traces[i].key)
              => DictHas(win'.traces, win.traces[i].key)
       /\ \A i \in 1..Len(win'.traces) :
            Listed(win, wop'.sec, win'.traces[i].key)
       /\ Range(wret') = UnlistedTraces(win, wop'.sec)
       /\ Len(wret') = Cardinality(UnlistedTraces(win, wop'.sec))]_vars

\* Trace z is trace prim with data and fold all zero and component c
IsZeroCopy(z, prim, c) ==
    z = [prim EXCEPT !.data = [i \in 1..Len(prim.data) |-> 0],
                     !.fold = [i \in 1..Len(prim.fold) |-> 0],
                     !.channel = SubSeq(prim.channel, 1, Len(prim.channel) - 1)
                                 \o <<c>>]

\* The step is a zero-fill that ran with a passing primary: zeros_fill, or
\* apply_fill_rule with rule zeros_fill that returned
ZeroFillStep ==
    /\ wop'.name \in {"zeros_fill", "apply_fill_rule"}
    /\ wop'.rule = "zeros_fill"
    /\ werr' = "ok"
    /\ PrimaryPasses(win, wop'.tol)

\* C10: zero-fill.  With a passing primary, every secondary component that
\* is absent or fails its check ends up as the primary Segment with data
\* and fold all zero and that secondary's component character; a secondary
\* that passes is retained unchanged, and so is the primary Segment.
C10_ZeroFill ==
    [][ZeroFillStep =>
         LET p == win.primary_component
             prim == DictGet(win.traces, p)
         IN  /\ DictHas(win'.traces, p)
             /\ DictGet(win'.traces, p) = prim
             /\ \A c \in Range(wop'.sec) :
                  /\ DictHas(win'.traces, <<c>>)
                  /\ IF /\ DictHas(win.traces, <<c>>)
                        /\ check_fvalid(win, <<c>>, wop'.tol)
                     THEN DictGet(win'.traces, <<c>>) = DictGet(win.traces, <<c>>)
                     ELSE IsZeroCopy(DictGet(win'.traces, <<c>>), prim, c)]_vars

\* A zero-fill has put a zeroed copy of the primary in the place of one
\* secondary and retained the other secondary.
C10_Witness ==
    /\ wop.name \in {"zeros_fill", "apply_fill_rule"}
    /\ wop.rule = "zeros_fill"
    /\ werr = "ok"
    /\ \E c, d \in Range(wop.sec) :
         /\ DictHas(win.traces, <<c>>)
         /\ DictHas(win.traces, <<d>>)
         /\ IsZeroCopy(DictGet(win.traces, <<c>>),
                       DictGet(win.traces, win.primary_component), c)
         /\ NValid(DictGet(win.traces, <<d>>)) = TraceNpts

\* Trace z is trace src with its data retained, fold all zero and
\* component c
IsFoldZeroCopy(z, src, c) ==
    z = [src EXCEPT !.fold = [i \in 1..Len(src.fold) |-> 0],
                    !.channel = SubSeq(src.channel, 1, Len(src.channel) - 1)
                                \o <<c>>]

\* Does secondary component c of the call pass its check before the call?
\* An absent component does not.
SecondaryPasses(w, c, tol) ==
    /\ DictHas(w.traces, <<c>>)
    /\ check_fvalid(w, <<c>>, tol)

\* The step is an apply_fill_rule with the given rule that returned, made
\* on a Window whose primary passes
FillStep(rule) ==
    /\ wop'.name = "apply_fill_rule"
    /\ wop'.rule = rule
    /\ werr' = "ok"
    /\ PrimaryPasses(win, wop'.tol)

\* C11: clone-primary-fill.  With a passing primary, every secondary
\* component that is absent or fails its check ends up as the primary
\* Segment with its data retained, fold all zero and that secondary's
\* component character; a secondary that passes is unchanged, and so is the
\* primary Segment.
C11_ClonePrimaryFill ==
    [][FillStep("clone_primary_fill") =>
         LET p == win.primary_component
             prim == DictGet(win.traces, p)
         IN  /\ DictHas(win'.traces, p)
             /\ DictGet(win'.traces, p) = prim
             /\ \A c \in Range(wop'.sec) :
                  /\ DictHas(win'.traces, <<c>>)
                  /\ IF SecondaryPasses(win, c, wop'.tol)
                     THEN DictGet(win'.traces, <<c>>) = DictGet(win.traces, <<c>>)
                     ELSE IsFoldZeroCopy(DictGet(win'.traces, <<c>>), prim, c)]_vars

\* A clone-primary-fill has put a fold-zero copy of the primary, data
\* retained, in the place of one secondary and retained the other.
C11_Witness ==
    /\ wop.name = "apply_fill_rule"
    /\ wop.rule = "clone_primary_fill"
    /\ werr = "ok"
    /\ \E c, d \in Range(wop.sec) :
         /\ DictHas(win.traces, <<c>>)
         /\ DictHas(win.traces, <<d>>)
         /\ IsFoldZeroCopy(DictGet(win.traces, <<c>>),
                           DictGet(win.traces, win.primary_component), c)
         /\ DictGet(win.traces, <<c>>).data =
              [i \in 1..TraceNpts |-> CompValue("Z")]
         /\ NValid(DictGet(win.traces, <<d>>)) = TraceNpts

\* C12: clone-secondary-fill.  With a passing primary: (a) if exactly one
\* of the two secondaries passes, the other ends up as the passing
\* secondary's Segment with fold all zero and the failing component's
\* character, and the passing secondary is unchanged; (b) if both fail or
\* are absent, both end up as clone-primary-fill leaves them, fold-zero
\* copies of the primary; (c) if both pass, no Segment is changed.  The
\* primary is unchanged in all three cases.
C12_CloneSecondaryFill ==
    [][(FillStep("clone_secondary_fill") /\ Len(wop'.sec) = 2) =>
         LET p == win.primary_component
             prim == DictGet(win.traces, p)
             s1 == wop'.sec[1]
             s2 == wop'.sec[2]
             p1 == SecondaryPasses(win, s1, wop'.tol)
             p2 == SecondaryPasses(win, s2, wop'.tol)
             OneClone(good, bad) ==
               /\ DictHas(win'.traces, <<bad>>)
               /\ IsFoldZeroCopy(DictGet(win'.traces, <<bad>>),
                                 DictGet(win.traces, <<good>>), bad)
               /\ DictHas(win'.traces, <<good>>)
               /\ DictGet(win'.traces, <<good>>) = DictGet(win.traces, <<good>>)
         IN  /\ DictHas(win'.traces, p)
             /\ DictGet(win'.traces, p) = prim
             /\ (p1 /\ ~p2) => OneClone(s1, s2)
             /\ (p2 /\ ~p1) => OneClone(s2, s1)
             /\ (~p1 /\ ~p2) =>
                  \A c \in {s1, s2} :
                    /\ DictHas(win'.traces, <<c>>)
                    /\ IsFoldZeroCopy(DictGet(win'.traces, <<c>>), prim, c)
             /\ (p1 /\ p2) => win'.traces = win.traces]_vars

\* A clone-secondary-fill has put a fold-zero copy of the passing secondary
\* in the place of the other one, which the Window did not hold or held
\* incomplete.
C12_Witness ==
    /\ wop.name = "apply_fill_rule"
    /\ wop.rule = "clone_secondary_fill"
    /\ werr = "ok"
    /\ \E c, d \in Range(wop.sec) :
         /\ c # d
         /\ DictHas(win.traces, <<c>>)
         /\ DictHas(win.traces, <<d>>)
         /\ NValid(DictGet(win.traces, <<d>>)) = TraceNpts
         /\ IsFoldZeroCopy(DictGet(win.traces, <<c>>),
                           DictGet(win.traces, <<d>>), c)
         /\ DictGet(win.traces, <<c>>).data # DictGet(win.traces, win.primary_component).data

\* The step is an apply_fill_rule whose arguments are accepted, on a Window
\* that holds its primary and no unlisted component: the call gets to run
\* the completeness checks (state Unchecked).
ChecksReached ==
    /\ wop'.name = "apply_fill_rule"
    /\ wop'.rule \in Rules
    /\ Len(wop'.sec) = 2 /\ wop'.sec[1] # wop'.sec[2]
    /\ \A c \in Range(wop'.sec) : <<c>> # win.primary_component
    /\ 0 <= wop'.tol /\ wop'.tol < 1000
    /\ DictHas(win.traces, win.primary_component)
    /\ UnlistedTraces(win, wop'.sec) = {}

\* The secondary components that do not pass their check before the call:
\* the slots a fill has to synthesize or replace
Refilled ==
    {c \in Range(wop'.sec) : ~SecondaryPasses(win, c, wop'.tol)}

\* The fill states that account for the Segments the step leaves in the
\* slots of Refilled: zeroed copies of the primary, fold-zero copies of the
\* primary, or fold-zero copies of the other, passing secondary
FillKinds ==
    LET prim == DictGet(win.traces, win.primary_component)
        held(c) == DictHas(win'.traces, <<c>>)
        new(c) == DictGet(win'.traces, <<c>>)
    IN  (IF \A c \in Refilled : held(c) /\ IsZeroCopy(new(c), prim, c)
         THEN {"ZeroFilled"} ELSE {}) \cup
        (IF \A c \in Refilled : held(c) /\ IsFoldZeroCopy(new(c), prim, c)
         THEN {"PrimaryCloned"} ELSE {}) \cup
        (IF \A c \in Refilled :
              /\ held(c)
              /\ \E d \in Range(wop'.sec) \ {c} :
                   /\ SecondaryPasses(win, d, wop'.tol)
                   /\ IsFoldZeroCopy(new(c), DictGet(win.traces, <<d>>), c)
         THEN {"SecondaryCloned"} ELSE {})

\* C13: fill-rule state machine.  An apply_fill_rule invocation that runs
\* the completeness checks returns (Ready) without synthesizing or replacing
\* a Segment when all checks pass; when the primary passes and a secondary
\* does not, it returns after a fill of exactly one kind (ZeroFilled,
\* PrimaryCloned or SecondaryCloned) that leaves the passing Segments as
\* they were; when the primary fails it raises InsufficientPrimaryData with
\* no secondary synthesized or replaced.
C13_FillStateMachine ==
    [][ChecksReached =>
         IF PrimaryPasses(win, wop'.tol) /\ Refilled = {}
         THEN werr' = "ok" /\ win'.traces = win.traces
         ELSE IF PrimaryPasses(win, wop'.tol)
         THEN /\ werr' = "ok"
              /\ Cardinality(FillKinds) = 1
              /\ \A i \in 1..Len(win.traces) :
                   win.traces[i].key[1] \notin Refilled
                     => /\ DictHas(win'.traces, win.traces[i].key)
                        /\ DictGet(win'.traces, win.traces[i].key) =
                             win.traces[i].tr
         ELSE /\ werr' = "ValueError"
              /\ win'.traces = win.traces]_vars

\* An invocation has raised InsufficientPrimaryData on a Window that lacks
\* a secondary: the primary fails its check and the secondary is still
\* not held.
C13_Witness ==
    /\ wop.name = "apply_fill_rule"
    /\ wop.rule \in Rules
    /\ Len(wop.sec) = 2
    /\ 0 <= wop.tol /\ wop.tol < 1000
    /\ werr = "ValueError"
    /\ DictHas(win.traces, win.primary_component)
    /\ ~check_fvalid(win, win.primary_component, wop.tol)
    /\ \E c \in Range(wop.sec) : ~DictHas(win.traces, <<c>>)

\* The step is an apply_fill_rule whose arguments are accepted, on a Window
\* whose primary is held and fails its completeness check
PrimaryFailsStep ==
    /\ wop'.name = "apply_fill_rule"
    /\ wop'.rule \in Rules
    /\ Len(wop'.sec) = 2 /\ wop'.sec[1] # wop'.sec[2]
    /\ 0 <= wop'.tol /\ wop'.tol < 1000
    /\ DictHas(win.traces, win.primary_component)
    /\ ~check_fvalid(win, win.primary_component, wop'.tol)

PrimaryAbsentStep ==
    /\ wop'.name = "apply_fill_rule"
    /\ wop'.rule \in Rules
    /\ Len(wop'.sec) = 2 /\ wop'.sec[1] # wop'.sec[2]
    /\ 0 <= wop'.tol /\ wop'.tol < 1000
    /\ ~DictHas(win.traces, win.primary_component)

\* C15: fatal precondition.  apply_fill_rule with any of the three rules on
\* a Window whose primary component is absent raises MissingPrimaryComponent
\* (the KeyError of the fill rules) and leaves the components the Window
\* holds as they were before the call.
C15_MissingPrimary ==
    [][PrimaryAbsentStep =>
         (werr' = "KeyError" /\ win'.traces = win.traces)]_vars

\* The step is an apply_fill_rule with an invalid parameter: a rule that is
\* not one of the three, a tolerance outside [0, 1), or secondary components
\* that are not two distinct characters both different from the primary
InvalidParameterStep ==
    /\ wop'.name = "apply_fill_rule"
    /\ \/ wop'.rule \notin Rules
       \/ ~(0 <= wop'.tol /\ wop'.tol < 1000)
       \/ Len(wop'.sec) # 2
       \/ \E i, j \in 1..Len(wop'.sec) : i # j /\ wop'.sec[i] = wop'.sec[j]
       \/ \E i \in 1..Len(wop'.sec) : <<wop'.sec[i]>> = win.primary_component

\* C16: InvalidParameter is rejected before any mutation.  apply_fill_rule
\* with an invalid parameter raises an error, and the components the Window
\* holds, their Segments and its recognized secondary pair are what they
\* were before the call.
C16_InvalidParameter ==
    [][InvalidParameterStep =>
         /\ werr' # "ok"
         /\ win'.traces = win.traces
         /\ win'.secondary_components = win.secondary_components]_vars

(***************************************************************************)
(* Claims on the completeness checks, checked under SpecChk.               *)
(***************************************************************************)
\* The threshold of the component held under key k
ThresholdOf(w, k) ==
    IF k = w.primary_component THEN primary_threshold ELSE secondary_threshold

C18_AbsentReturnsZero ==
    [][(/\ wop'.name = "check_fvalid"
        /\ 0 <= wop'.tol /\ wop'.tol < 1000
        /\ ~DictHas(win.traces, wop'.key))
       => /\ werr' = "ok"
          /\ wret' = <<[key |-> wop'.key, pass |-> FALSE]>>]_vars

(***************************************************************************)
(* Claims on the alignment and the export, checked under SpecExp.          *)
(***************************************************************************)
\* Does the Window hold required component c ungapped, with the required
\* number of samples, at the target start time and sampling rate?
RequiredReady(w, model, c) ==
    /\ DictHas(w.traces, <<c>>)
    /\ LET tr == DictGet(w.traces, <<c>>) IN
         /\ ~tr.masked
         /\ Npts(tr) = model.in_samples
         /\ tr.starttime = w.target_starttime
         /\ tr.sampling_rate = w.target_sampling_rate

\* C19: export gating.  to_npy_tensor fails with NotReady (its ValueError)
\* whenever a component of the model's component order is absent, masked,
\* not of in_samples samples or off the target start time or sampling rate;
\* when every required component is present and aligned it succeeds and
\* returns the data of the required components, one row each, in the
\* model's component order.
C19_ExportGating ==
    [][wop'.name = "to_npy_tensor" =>
         LET model == wop'.model
             order == model.component_order
         IN  IF \A c \in Range(order) : RequiredReady(win, model, c)
             THEN /\ werr' = "ok"
                  /\ wret' = [i \in 1..Len(order) |->
                                DictGet(win.traces, <<order[i]>>).data]
             ELSE werr' = "ValueError"]_vars

\* Does the trace held under key k of w equal the targets in start time,
\* sampling rate, number of samples and, with them, end time?
MatchesTargets(w, k) ==
    LET tr == DictGet(w.traces, k) IN
      /\ tr.starttime = w.target_starttime
      /\ tr.sampling_rate = w.target_sampling_rate
      /\ Npts(tr) = w.target_npts
      /\ Endtime(tr) = w.target_starttime
                         + (w.target_npts - 1)
                             * (TicksPerSecond \div w.target_sampling_rate)

\* C20: align_to_targets frame condition.  With all three targets set,
\* every held component that matches the targets is left untouched and the
\* alignment is carried out on every component that diverges from them,
\* which then matches the targets; with a target unset the call fails and
\* touches no Segment.
C20_AlignFrame ==
    [][wop'.name = "align_to_targets" =>
         IF \/ win.target_starttime = None
            \/ win.target_sampling_rate = None
            \/ win.target_npts = None
         THEN werr' # "ok" /\ win'.traces = win.traces
         ELSE \A i \in 1..Len(win.traces) :
                LET k == win.traces[i].key IN
                  /\ DictHas(win'.traces, k)
                  /\ IF MatchesTargets(win, k)
                     THEN DictGet(win'.traces, k) = win.traces[i].tr
                     ELSE MatchesTargets(win', k)]_vars

(***************************************************************************)
(* Claims on check_windowing_status, checked under SpecSts.                *)
(***************************************************************************)
\* The entries of the full matrix of Window w, as mode 'full' returns them
FullMatrix(w) == check_windowing_status_mode(w, "full").status

\* The Window has all three targets set
TargetsSet(w) ==
    /\ w.target_starttime # None
    /\ w.target_sampling_rate # None
    /\ w.target_npts # None

\* C21: check_windowing_status mode consistency.  On a Window with targets
\* set, the summary result is the logical AND of all entries of the full
\* matrix, the per-component result of a component is the AND of the
\* entries of the matrix for that component, and a mode that is not
\* supported is rejected with an error and returns no value.
C21_ModeConsistency ==
    [][(wop'.name = "check_windowing_status" /\ TargetsSet(win)) =>
         LET m == FullMatrix(win) IN
           /\ wop'.mode = "summary" =>
                /\ werr' = "ok"
                /\ Len(wret') = 1
                /\ wret'[1].val = (\A j \in 1..Len(m) : m[j].val)
           /\ (wop'.mode = "trace" /\ werr' = "ok") =>
                /\ Len(wret') = Len(win.traces)
                /\ \A i \in 1..Len(wret') :
                     /\ wret'[i].key = win.traces[i].key
                     /\ wret'[i].val =
                          (\A j \in 1..Len(m) :
                             m[j].key = wret'[i].key => m[j].val)
           /\ (wop'.mode = "trace" /\ Len(win.traces) > 0) => werr' = "ok"
           /\ wop'.mode \notin StatusModes =>
                (werr' # "ok" /\ wret' = <<>>)]_vars

\* A summary has come out false on a Window whose traces meet the targets
\* and of which one is masked.
C21_Witness ==
    /\ wop.name = "check_windowing_status"
    /\ wop.mode = "summary"
    /\ werr = "ok"
    /\ ~wret[1].val
    /\ Len(win.traces) >= 2
    /\ \A i \in 1..Len(win.traces) :
         LET tr == win.traces[i].tr IN
           /\ tr.starttime = win.target_starttime
           /\ tr.sampling_rate = win.target_sampling_rate
           /\ Npts(tr) = win.target_npts
    /\ \E i \in 1..Len(win.traces) : win.traces[i].tr.masked

(***************************************************************************)
(* Claims on selection and extraction, checked under SpecSel.              *)
(***************************************************************************)
\* Traces a and b are the same Segment or one a copy of the other
SameSegment(a, b) == [a EXCEPT !.oid = 0] = [b EXCEPT !.oid = 0]

\* The entries of buffer b whose key matches (or does not match) fnstr, in
\* the order of b
Matching(b, fnstr, yes) ==
    SelectSeq(b.traces, LAMBDA e : FnMatch(e.key, fnstr) = yes)

\* C22: wildcard selection.  fnselect(pattern) returns a new buffer that
\* holds exactly the Segments of the source whose current key matches the
\* shell-style pattern, in the insertion order of the source.
C22_WildcardSelection ==
    [][bop'.name = "fnselect" =>
         LET m == Matching(ds, bop'.fnstr, TRUE) IN
           /\ berr' = "ok"
           /\ Len(ret'.traces) = Len(m)
           /\ \A i \in 1..Len(m) :
                SameSegment(ret'.traces[i].tr, m[i].tr)]_vars


\* Every key of buffer b is the identity of the Segment under it
KeysDerived(b) ==
    \A i \in 1..Len(b.traces) : b.traces[i].key = get_id(b.traces[i].tr)

\* C22 restricted to a source all of whose keys are derived from the
\* Segments under them: then fnselect returns exactly the matching
\* Segments in the order of the source.
C22_IntactKeys ==
    [][bop'.name = "fnselect" /\ KeysDerived(ds) =>
         LET m == Matching(ds, bop'.fnstr, TRUE) IN
           /\ berr' = "ok"
           /\ Len(ret'.traces) = Len(m)
           /\ \A i \in 1..Len(m) :
                SameSegment(ret'.traces[i].tr, m[i].tr)]_vars


\* The objects under the keys of buffer b that match fnstr
MatchedOids(b, fnstr) ==
    LET m == Matching(b, fnstr, TRUE) IN {m[i].tr.oid : i \in 1..Len(m)}

\* The trace that is the object o in buffer b
Object(b, o) ==
    b.traces[CHOOSE i \in 1..Len(b.traces) : b.traces[i].tr.oid = o].tr

\* C23: view versus copy.  A buffer returned by fnselect with ascopy=False
\* holds the same Segment objects as the source holds under the matching
\* keys, so a later change of such a Segment made through either buffer
\* shows in the other; with ascopy=True the returned Segments are
\* duplicates no other buffer holds, the source is left as it was, and a
\* later change made through either buffer leaves the other as it was.
C23_ViewVersusCopy ==
    [][/\ bop'.name = "fnselect" /\ berr' = "ok" =>
            IF bop'.ascopy
            THEN /\ Oids(ret') \cap Oids(ds') = {}
                 /\ ds' = ds
                 /\ Len(ret'.traces) = Len(Matching(ds, bop'.fnstr, TRUE))
            ELSE /\ Oids(ret') = MatchedOids(ds, bop'.fnstr)
                 /\ \A o \in Oids(ret') : Object(ret', o) = Object(ds', o)
       /\ bop.name = "fnselect" /\ berr = "ok" /\ bop'.name = "mutate" =>
            LET o == bop'.oid
                there == IF bop'.through = "source" THEN ret' ELSE ds'
                here == IF bop'.through = "source" THEN ds' ELSE ret'
                before == IF bop'.through = "source" THEN ret ELSE ds
            IN  IF bop.ascopy
                THEN there = before
                ELSE (bop'.through = "source" =>
                        o \in MatchedOids(ds, bop.fnstr))
                     => /\ o \in Oids(there)
                        /\ Object(there, o) = Object(here, o)
                        /\ Object(there, o) =
                             to_zero(Object(before, o), "both")]_vars

\* C23 restricted to a source all of whose keys are derived from the
\* Segments under them.
C23_IntactKeys ==
    [][/\ bop'.name = "fnselect" /\ berr' = "ok" /\ KeysDerived(ds) =>
            IF bop'.ascopy
            THEN /\ Oids(ret') \cap Oids(ds') = {}
                 /\ ds' = ds
                 /\ Len(ret'.traces) = Len(Matching(ds, bop'.fnstr, TRUE))
            ELSE /\ Oids(ret') = MatchedOids(ds, bop'.fnstr)
                 /\ \A o \in Oids(ret') : Object(ret', o) = Object(ds', o)
       /\ bop.name = "fnselect" /\ berr = "ok" /\ bop'.name = "mutate"
          /\ KeysDerived(ds) =>
            LET o == bop'.oid
                there == IF bop'.through = "source" THEN ret' ELSE ds'
                here == IF bop'.through = "source" THEN ds' ELSE ret'
                before == IF bop'.through = "source" THEN ret ELSE ds
            IN  IF bop.ascopy
                THEN there = before
                ELSE (bop'.through = "source" =>
                        o \in MatchedOids(ds, bop.fnstr))
                     => /\ o \in Oids(there)
                        /\ Object(there, o) = Object(here, o)
                        /\ Object(there, o) =
                             to_zero(Object(before, o), "both")]_vars


\* C24: fnpop is an atomic move.  After fnpop(pattern) the returned buffer
\* holds exactly the Segments whose keys matched the pattern, the source
\* holds exactly the entries whose keys did not match, in their previous
\* relative order, and every Segment held before the call is in exactly one
\* of the two buffers.
C24_AtomicMove ==
    [][bop'.name = "fnpop" =>
         /\ berr' = "ok"
         /\ Segments(ret'.traces) =
              Segments(Matching(ds, bop'.fnstr, TRUE))
         /\ ds'.traces = Matching(ds, bop'.fnstr, FALSE)
         /\ Oids(ret') \cap Oids(ds') = {}
         /\ Oids(ret') \cup Oids(ds') = Oids(ds)]_vars

\* C24 restricted to a source all of whose keys are derived from the
\* Segments under them.
C24_IntactKeys ==
    [][bop'.name = "fnpop" /\ KeysDerived(ds) =>
         /\ berr' = "ok"
         /\ Segments(ret'.traces) =
              Segments(Matching(ds, bop'.fnstr, TRUE))
         /\ ds'.traces = Matching(ds, bop'.fnstr, FALSE)
         /\ Oids(ret') \cap Oids(ds') = {}
         /\ Oids(ret') \cup Oids(ds') = Oids(ds)]_vars


\* The number of samples held by a sequence of Segments, merged or not:
\* the sum of their fold
RECURSIVE FoldSum(_)
FoldSum(trs) ==
    IF Len(trs) = 0 THEN 0
    ELSE LET f == Head(trs).fold
             s[i \in 0..Len(f)] == IF i = 0 THEN 0 ELSE s[i - 1] + f[i]
         IN  s[Len(f)] + FoldSum(Tail(trs))

\* C25: split_on_key is a partition.  For a supported scheme the call
\* returns a mapping whose keys are exactly the derived values of the held
\* Segments, every held Segment is, alone or merged, in the buffer mapped
\* from its derived value and in no other, and no data is dropped when
\* Segments share a derived value.
C25_Partition ==
    [][bop'.name = "split_on_key" /\ bop'.key_attr \in attr_keys =>
         LET held == Segments(ds.traces)
             key == bop'.key_attr
         IN  /\ berr' = "ok"
             /\ {ret'[i].key : i \in 1..Len(ret')} =
                  {key_opts(held[j], key) : j \in 1..Len(held)}
             /\ \A j \in 1..Len(held) : \A i \in 1..Len(ret') :
                  (\E e \in 1..Len(ret'[i].b.traces) :
                     get_id(ret'[i].b.traces[e].tr) = get_id(held[j]))
                  <=> ret'[i].key = key_opts(held[j], key)
             /\ \A i \in 1..Len(ret') :
                  FoldSum(Segments(ret'[i].b.traces)) =
                    FoldSum(SelectSeq(held,
                      LAMBDA t : key_opts(t, key) = ret'[i].key))]_vars


(***************************************************************************)
(* Claims on the common id, checked under SpecCid.                         *)
(***************************************************************************)
\* The values of field f among the traces of the buffer
FieldValues(f) == {ds.traces[i].tr[f] : i \in 1..Len(ds.traces)}

\* The length of the shortest of the values V
Shortest(V) == CHOOSE n \in {Len(v) : v \in V} : \A v \in V : n <= Len(v)

\* All the values V have the same character at position i
Agree(V, i) == \A v, w \in V : v[i] = w[i]

\* C26: common-identity algorithm.  For each of the six identity fields
\* the token is '*' when no Segment is held and the value itself when all
\* held Segments share one value; otherwise it is '*' if the values agree
\* at no position up to the length of the shortest, and else has, at each
\* of these positions, the character the values agree on or '?', followed
\* by '*' exactly if the values differ in length.  The common id is the
\* six tokens joined with '.', in the order network, station, location,
\* channel, model, weight.
C26_CommonIdAlgorithm ==
    bop.name = "get_common_id" =>
      /\ Len(ret.elements) = 6
      /\ ret.common_id =
           ret.elements[1] \o Dot \o ret.elements[2] \o Dot \o
           ret.elements[3] \o Dot \o ret.elements[4] \o Dot \o
           ret.elements[5] \o Dot \o ret.elements[6]
      /\ \A f \in 1..6 :
           LET V == FieldValues(IdFields[f])
               tok == ret.elements[f]
           IN  /\ V = {} => tok = <<"*">>
               /\ Cardinality(V) = 1 => tok \in V
               /\ Cardinality(V) > 1 =>
                    LET n == Shortest(V)
                        ragged == \E v \in V : Len(v) # n
                    IN  IF \A i \in 1..n : ~Agree(V, i)
                        THEN tok = <<"*">>
                        ELSE /\ Len(tok) = IF ragged THEN n + 1 ELSE n
                             /\ \A i \in 1..n :
                                  IF Agree(V, i)
                                  THEN \A v \in V : tok[i] = v[i]
                                  ELSE tok[i] = "?"
                             /\ ragged => tok[n + 1] = "*"
      /\ IdFields =
           <<"network", "station", "location", "channel", "model", "weight">>

\* Witness of C26: the stations A and AB give the token A*, the channels HZ
\* and HN the token H?
C26_Witness ==
    /\ bop.name = "get_common_id"
    /\ ret.elements[2] = <<"A", "*">>
    /\ ret.elements[4] = <<"H", "?">>
    /\ ret.common_id = <<"U", ".", "A", "*", ".", ".", "H", "?", ".", ".">>

\* C27: common-identity round trip.  For every buffer that holds a Segment
\* the common id, used as a shell-style pattern, matches the full-id key of
\* every held Segment, the Segments of empty model and weight included.
C27_RoundTrip ==
    bop.name = "get_common_id" =>
      \A i \in 1..Len(ds.traces) :
        /\ ds.traces[i].key = get_id(ds.traces[i].tr)
        /\ FnMatch(ds.traces[i].key, ret.common_id)


\* The keys of new are the keys of old that are still held, in the order
\* they have in old, followed by the keys old did not hold
OrderKept(old, new) ==
    LET ko == DictKeys(old)
        kn == DictKeys(new)
        surv == SelectSeq(ko, LAMBDA k : DictHas(new, k))
    IN  /\ Len(surv) <= Len(kn)
        /\ SubSeq(kn, 1, Len(surv)) = surv
        /\ \A i \in (Len(surv) + 1)..Len(kn) : ~DictHas(old, kn[i])

C29_SequentialPipeline ==
    [][top'.name = "pulse" /\ tube.class = "TubeWyrm" =>
         LET n == Len(tube.wyrm_dict)
             calls == top'.calls
         IN  /\ terr' = "ok"
             /\ Len(calls) = n
             /\ \A i \in 1..n : calls[i].stage = i
             /\ calls[1].received = Deque(top'.x)
             /\ \A i \in 1..(n - 1) :
                  calls[i + 1].received = Deque(tube'.wyrm_dict[i].output)
             /\ ty' = Deque(tube'.wyrm_dict[n].output)]_vars


\* C29 for a TubeWyrm that has been given its wyrm_list and whose Wyrms do
\* not raise.
C29_ListAssigned ==
    [][(top'.name = "pulse" /\ tube.class = "TubeWyrm"
          /\ "wyrm_list" \in tube.attrs /\ terr' = "ok") =>
         LET n == Len(tube.wyrm_dict)
             calls == top'.calls
         IN  /\ Len(calls) = n
             /\ \A i \in 1..n : calls[i].stage = i
             /\ calls[1].received = Deque(top'.x)
             /\ \A i \in 1..(n - 1) :
                  calls[i + 1].received = Deque(tube'.wyrm_dict[i].output)
             /\ ty' = Deque(tube'.wyrm_dict[n].output)]_vars

\* C30: fan-out with identical input.  In one pulse(x) of a CanWyrm every
\* Wyrm is pulsed, with x: the content of x a Wyrm observes when its pulse
\* starts is the content the first Wyrm observed, the units an earlier
\* Wyrm consumed included.
C30_FanOutIdenticalInput ==
    [][top'.name = "pulse" /\ tube.class = "CanWyrm" =>
         LET n == Len(tube.wyrm_dict)
             calls == top'.calls
         IN  /\ terr' = "ok"
             /\ Len(calls) = n
             /\ \A i \in 1..n : /\ calls[i].stage = i
                                /\ calls[i].received = Deque(top'.x)]_vars

\* C30 for a CanWyrm that has been given the attributes its pulse reads and
\* whose Wyrms do not raise.
C30_AttributesAssigned ==
    [][(top'.name = "pulse" /\ tube.class = "CanWyrm"
          /\ CanAttrs \subseteq tube.attrs /\ terr' = "ok") =>
         LET n == Len(tube.wyrm_dict)
             calls == top'.calls
         IN  /\ Len(calls) = n
             /\ \A i \in 1..n : /\ calls[i].stage = i
                                /\ calls[i].received = Deque(top'.x)]_vars


\* C31: fan-out accumulation.  pulse(x) of a CanWyrm returns a mapping
\* keyed by stage name, one entry per stage in mapping order; the entry of
\* a name is the result of that stage's first pulse and, from the second
\* pulse on, the entry it had combined with the new result of that stage.
C31_FanOutAccumulation ==
    [][top'.name = "pulse" /\ tube.class = "CanWyrm" =>
         LET n == Len(tube.wyrm_dict)
             calls == top'.calls
         IN  /\ terr' = "ok"
             /\ Len(calls) = n
             /\ \A i \in 1..n : calls[i].stage = i
             /\ ty'.kind = "dict"
             /\ Len(ty'.val) = n
             /\ \A i \in 1..n :
                  /\ ty'.val[i].name = i
                  /\ ty'.val[i].entry =
                       IF ty.kind = "dict"
                       THEN Append(ty.val[i].entry, calls[i].returned)
                       ELSE <<calls[i].returned>>]_vars

\* C31 for a CanWyrm that has been given the attributes its pulse reads and
\* whose Wyrms do not raise.
C31_AttributesAssigned ==
    [][(top'.name = "pulse" /\ tube.class = "CanWyrm"
          /\ CanAttrs \subseteq tube.attrs /\ terr' = "ok") =>
         LET n == Len(tube.wyrm_dict)
             calls == top'.calls
         IN  /\ Len(calls) = n
             /\ \A i \in 1..n : calls[i].stage = i
             /\ ty'.kind = "dict"
             /\ Len(ty'.val) = n
             /\ \A i \in 1..n :
                  /\ ty'.val[i].name = i
                  /\ ty'.val[i].entry =
                       IF ty.kind = "dict"
                       THEN Append(ty.val[i].entry, calls[i].returned)
                       ELSE <<calls[i].returned>>]_vars

\* The pipeline pulses started after stop() returned
StartedAfterStop(log) ==
    {k \in 1..Len(log) :
        /\ log[k] = "pulse_start"
        /\ \E j \in 1..(k - 1) : log[j] = "stop"}

\* C32: advisory cancellation.  With run() in the worker thread and
\* stop() called from another thread at any point: stop() changes the
\* runs flag and nothing else of the driver; the worker leaves its loop
\* for goodbye() only at the loop test, having read runs as False, or at
\* a mod_sta() that returned False, so that the flag is read once per
\* outer iteration; a pipeline pulse in progress ends by returning to
\* the loop test, whatever stop() did meanwhile; and at most one
\* pipeline pulse starts after stop() has returned.
C32_AdvisoryCancellation ==
    [][/\ (spc = "idle" /\ spc' = "returned") =>
            /\ runs' = FALSE
            /\ rpc' = rpc
            /\ driver' = driver
            /\ derr' = derr
       /\ (rpc # "goodbye" /\ rpc' = "goodbye") =>
            \/ rpc = "while" /\ ~runs
            \/ rpc = "mod_sta" /\ dlog' = Append(dlog, "mod_sta_false")
       /\ (rpc = "while" /\ rpc' # "while") =>
            rpc' = IF runs THEN "mod_sta" ELSE "goodbye"
       /\ (rpc = "pulsing" /\ rpc' # "pulsing") =>
            /\ rpc' = "while"
            /\ dlog' = Append(dlog, "pulse_end")
       /\ Cardinality(StartedAfterStop(dlog')) <= 1]_vars

\* stop() returned between the loop test and the pulse: one further
\* pulse started, ran to its end, and run() then left through goodbye()
C32_Witness ==
    /\ rpc = "done"
    /\ Cardinality(StartedAfterStop(dlog)) = 1
    /\ \E j \in 1..Len(dlog) : \E k \in (j + 1)..Len(dlog) :
         /\ dlog[j] = "stop"
         /\ dlog[k] = "pulse_end"

\* stop() returned while a pipeline pulse was in progress, and the
\* pulse ran to its end
C32_StopDuringPulse ==
    \E i \in 1..Len(dlog) : \E j \in (i + 1)..Len(dlog) :
      /\ dlog[i] = "pulse_start"
      /\ dlog[j] = "stop"
      /\ j < Len(dlog)
      /\ dlog[j + 1] = "pulse_end"
      /\ \A m \in (i + 1)..(j - 1) : dlog[m] # "pulse_end"

\* The calls of module.goodbye() so far
Goodbyes(log) == {k \in 1..Len(log) : log[k] = "goodbye"}

\* stop() has been called, or the last mod_sta() returned False, while
\* run() is executing
ShutdownAsked ==
    /\ rpc # "idle"
    /\ \/ spc = "returned"
       \/ Len(dlog) > 0 /\ dlog[Len(dlog)] = "mod_sta_false"

\* run() has ended, by returning or by an exception
RunEnded == rpc \in {"done", "raised"}

\* C33: driver shutdown.  Once stop() has been called or mod_sta() has
\* returned False, and with every pipeline pulse returning, run()
\* eventually ends having left its loop through module.goodbye(); on
\* every path on which run() ends, goodbye() was called exactly once,
\* and no pulse starts after goodbye().
C33_DriverShutdown ==
    /\ ShutdownAsked ~> (rpc = "done")
    /\ [](RunEnded => Cardinality(Goodbyes(dlog)) = 1)
    /\ [](\A k \in Goodbyes(dlog) :
            \A m \in (k + 1)..Len(dlog) : dlog[m] # "pulse_start")

\* C33 for drivers whose module has been initialised before run()
\* reads it (HeartWyrm after initialize_module)
C33_ModuleInitialized ==
    /\ (driver.module = "EWModule" /\ ShutdownAsked) ~> (rpc = "done")
    /\ []((driver.module = "EWModule" /\ RunEnded /\ derr # "AttributeError") =>
            Cardinality(Goodbyes(dlog)) = 1)

\* C33 for PulsedMod_EW alone, whose run() hands its input to the pulse
\* of the sequence: the shutdown holds
C33_PulsedMod ==
    /\ (driver.class = "PulsedMod_EW" /\ ShutdownAsked) ~> (rpc = "done")
    /\ []((driver.class = "PulsedMod_EW" /\ RunEnded) =>
            Cardinality(Goodbyes(dlog)) = 1)
    /\ [](\A k \in Goodbyes(dlog) :
            \A m \in (k + 1)..Len(dlog) : dlog[m] # "pulse_start")

\* A PulsedMod_EW whose run() was stopped during a pulse and ended
\* with one goodbye()
C33_PulsedModWitness ==
    /\ driver.class = "PulsedMod_EW"
    /\ rpc = "done"
    /\ spc = "returned"
    /\ NStarted(dlog) > 0
    /\ Cardinality(Goodbyes(dlog)) = 1

C35_DefaultIdentity ==
    (/\ ~stage.override
     /\ pc \in {"returned", "raised"}
     /\ inputKind = "deque"
     /\ in0 # <<>>)
    => /\ pc = "returned"
       /\ nremoved >= 1
       /\ nproc = nremoved
       /\ output = out0 \o SubSeq(in0, 1, nremoved)

\* The fold of trace tr is zero at every sample
FoldAllZero(tr) == \A i \in 1..Len(tr.fold) : tr.fold[i] = 0

SameKeysDataFold(w, v) ==
    /\ Range(DictKeys(w.traces)) = Range(DictKeys(v.traces))
    /\ Len(w.traces) = Len(v.traces)
    /\ \A k \in Range(DictKeys(w.traces)) :
         /\ DictGet(w.traces, k).data = DictGet(v.traces, k).data
         /\ DictGet(w.traces, k).fold = DictGet(v.traces, k).fold

\* C37: fill-rule idempotence.  For each of the three rules, with a
\* positive fold-validity threshold and a passing primary, an
\* apply_fill_rule call that follows a returned apply_fill_rule call
\* with the same arguments returns, leaves the Window with the same keys
\* and the same data and fold per component, and returns no removed
\* Segment.
C37_FillIdempotence ==
    [][(/\ wop'.name = "apply_fill_rule"
        /\ wop'.rule \in Rules
        /\ SameCallReturned(wop'.sec, wop'.rule, wop'.tol)
        /\ primary_threshold - wop'.tol > 0
        /\ secondary_threshold - wop'.tol > 0
        /\ PrimaryPasses(win, wop'.tol)) =>
         /\ werr' = "ok"
         /\ wret' = <<>>
         /\ SameKeysDataFold(win', win)]_vars

\* The second of two equal calls has returned; the Window holds a
\* secondary made by the first call, with fold zero and therefore
\* failing its check in the second, and a secondary that passes
C37_Witness ==
    /\ wop.name = "apply_fill_rule"
    /\ wop.again
    /\ werr = "ok"
    /\ \E c, d \in Range(wop.sec) :
         /\ DictHas(win.traces, <<c>>)
         /\ DictHas(win.traces, <<d>>)
         /\ FoldAllZero(DictGet(win.traces, <<c>>))
         /\ NValid(DictGet(win.traces, <<d>>)) = TraceNpts

\* C38: common-identity freshness.  After every operation that returns
\* and changes the Segments held by the buffer (insert, removal by
\* index, fnpop on the source, assignment by index or key), the
\* stats.common_id stored in the buffer equals the common identity
\* computed from the Segments it now holds.
C38_CommonIdFresh ==
    [][(berr' = "ok" /\ ds'.traces # ds.traces) =>
         ds'.stats.common_id = get_common_id(ds'.traces)]_vars

\* C38 for the inserts alone (extend, through _add_trace): the stored
\* common identity is recomputed by every insert
C38_Insert ==
    [][(berr' = "ok" /\ bop'.name = "extend" /\ ds'.traces # ds.traces) =>
         ds'.stats.common_id = get_common_id(ds'.traces)]_vars

\* An insert has returned on a buffer that holds two Segments of
\* different channels
C38_InsertWitness ==
    /\ bop.name = "extend"
    /\ berr = "ok"
    /\ Len(ds.traces) = 2
    /\ ds.stats.common_id = get_common_id(ds.traces)
    /\ ds.traces[1].tr.channel # ds.traces[2].tr.channel

\* The step is a selection called with ascopy=False
ViewSelection ==
    /\ bop'.name \in {"fnselect", "fnselect_site", "isin", "exclude"}
    /\ ~bop'.ascopy

\* C39: selection does not modify its source.  fnselect, isin and
\* exclude called with ascopy=False, with the default key_attr or with
\* one under which several matched Segments have the same key in the
\* returned buffer, leave the source with the keys, the order, the
\* stats and the Segments (data and fold) it had before the call.
C39_SelectionFrame ==
    [][ViewSelection => ds' = ds]_vars

\* C39 for the calls that take each Segment of the source once
\* (fnselect and exclude), on a source whose keys are all derived from
\* the Segments under them: the source is left as it was, also when
\* the call raises on two Segments of one site
C39_EachSegmentOnce ==
    [][(ViewSelection /\ bop'.name # "isin" /\ KeysDerived(ds)) =>
         ds' = ds]_vars

\* A fnselect keyed by site has raised on the second Segment of a site
\* and the source holds its Segments
C39_SiteWitness ==
    /\ bop.name = "fnselect_site"
    /\ ~bop.ascopy
    /\ berr = "SegmentIncompatible"
    /\ KeysDerived(ds)
    /\ Len(ds.traces) >= 2

\* The entries of the source that the last index selects, in its order
Selected ==
    IF bop'.name = "getitem_slice"
    THEN SubSeq(ds.traces, bop'.lo + 1, bop'.hi)
    ELSE SelectSeq(ds.traces,
                   LAMBDA e : \E i \in 1..Len(bop'.index) : bop'.index[i] = e.key)

\* The step indexes the buffer with a slice or with a list of keys held
SubBufferStep ==
    /\ bop'.name \in {"getitem_slice", "getitem_list"}
    /\ bop'.name = "getitem_list" =>
         \A i \in 1..Len(bop'.index) : DictHas(ds.traces, bop'.index[i])

\* C40: sub-buffer keys.  Slice or list-of-keys indexing of a buffer
\* configured with any key scheme returns a new buffer that holds
\* exactly the selected Segments, in the order and under the keys they
\* have in the source; the sub-buffer has the key scheme of the source
\* and no two selected Segments are merged.
C40_SubBufferKeys ==
    [][SubBufferStep =>
         /\ berr' = "ok"
         /\ ret'.traces = Selected
         /\ ret'.default_key_attr = ds.default_key_attr]_vars

\* C40 without the key scheme of the sub-buffer: the selected Segments
\* are held in the order and under the keys of the source
C40_SameKeys ==
    [][SubBufferStep =>
         /\ berr' = "ok"
         /\ ret'.traces = Selected]_vars

\* C40 for sources configured with the default key scheme 'id'
C40_IdKeyed ==
    [][(SubBufferStep /\ ds.default_key_attr = "id") =>
         /\ berr' = "ok"
         /\ ret'.traces = Selected
         /\ ret'.default_key_attr = ds.default_key_attr]_vars

\* A slice of two Segments out of three was taken from a source keyed
\* by 'id'
C40_IdKeyedWitness ==
    /\ bop.name = "getitem_slice"
    /\ ds.default_key_attr = "id"
    /\ Len(ds.traces) = 3
    /\ Len(ret.traces) = 2
    /\ ret.traces = SubSeq(ds.traces, 2, 3)

====
